---- MODULE Spec2Model ----
(***************************************************************************)
(* Model of flet-health: the envelope encoder wrap_value (utils.py), the   *)
(* Parameter Objects and to_wrapped (health_schemas.py) and the call       *)
(* wrappers of the Health control (flet_health.py).                        *)
(*                                                                         *)
(* Python values are records tagged by k, the concrete class of the value: *)
(*   [k |-> "none"]                      None                              *)
(*   [k |-> "bool", b]                   bool                              *)
(*   [k |-> "int", n]                    int                               *)
(*   [k |-> "float", x]                  float, x in tenths                *)
(*   [k |-> "str", s]                    str                               *)
(*   [k |-> "datetime", us]              datetime, microseconds from epoch *)
(*   [k |-> "enum", cls, mix, name, value]  member `name` of enum class    *)
(*                                       cls; mix is the data type the     *)
(*                                       class also derives from ("str",   *)
(*                                       "int") or "object" for a plain    *)
(*                                       Enum; value is the member's       *)
(*                                       .value                            *)
(*   [k |-> "list", items]               list                              *)
(*   [k |-> "dict", d]                   dict with str keys                *)
(*   [k |-> "tuple", items], [k |-> "set"], [k |-> "object"]               *)
(***************************************************************************)
EXTENDS Integers, Sequences, FiniteSets, TLC

VARIABLES
    pc,           \* wrap_value: "call" before it runs, "done" after;
                  \* wrappers: "idle" between calls, "returned" after one
    param_value,  \* wrap_value's first argument
    type_name,    \* wrap_value's hints
    subtype_name,
    class_name,
    result,       \* what wrap_value did: a returned envelope or a raised exception
    ctor,         \* Parameter Objects: the class constructed and its keyword arguments
    instance,     \* the constructed Parameter Object, or the validation error
    document,     \* what to_wrapped() of that object did
    call,         \* the wrapper call in progress: operation and arguments
    invoked,      \* the channel invocations that call made, in order
    outcome       \* what the wrapper call did: returned value or raised exception

vars == <<pc, param_value, type_name, subtype_name, class_name, result,
          ctor, instance, document, call, invoked, outcome>>

encVars == <<pc, param_value, type_name, subtype_name, class_name, result>>
paramVars == <<ctor, instance, document>>
wrapperVars == <<call, invoked, outcome>>

----------------------------------------------------------------------------
(* Bounds *)

MaxLen == 2        \* longest list passed to wrap_value
MaxInt == 1        \* ints range over -MaxInt..MaxInt
MaxHalfMs == 3     \* datetimes range over multiples of 500 microseconds

----------------------------------------------------------------------------
(* Python values *)

NoneV == [k |-> "none"]
BoolV(b) == [k |-> "bool", b |-> b]
IntV(n) == [k |-> "int", n |-> n]
FloatV(x) == [k |-> "float", x |-> x]
StrV(s) == [k |-> "str", s |-> s]
DatetimeV(us) == [k |-> "datetime", us |-> us]
EnumV(cls, mix, name, value) ==
    [k |-> "enum", cls |-> cls, mix |-> mix, name |-> name, value |-> value]
ListV(items) == [k |-> "list", items |-> items]
DictV(d) == [k |-> "dict", d |-> d]
TupleV(items) == [k |-> "tuple", items |-> items]
SetV == [k |-> "set"]
ObjectV == [k |-> "object"]

\* isinstance(v, C): bool is a subclass of int, and a member of an enum class
\* that mixes in str or int is an instance of that data type too.
IsBool(v) == v.k = "bool"
IsInt(v) == v.k \in {"int", "bool"} \/ (v.k = "enum" /\ v.mix = "int")
IsFloat(v) == v.k = "float"
IsStr(v) == v.k = "str" \/ (v.k = "enum" /\ v.mix = "str")
IsDatetime(v) == v.k = "datetime"
IsEnum(v) == v.k = "enum"
IsList(v) == v.k = "list"
IsDict(v) == v.k = "dict"

\* bool(v), for the values the code tests for truth
Truthy(v) ==
    CASE v.k = "none" -> FALSE
      [] v.k = "bool" -> v.b
      [] v.k = "int" -> v.n # 0
      [] v.k = "float" -> v.x # 0
      [] v.k = "str" -> v.s # ""
      [] v.k \in {"list", "tuple"} -> Len(v.items) > 0
      [] OTHER -> TRUE

\* int(x) of a quotient a / b, b > 0: rounds toward zero
TruncDiv(a, b) == IF a >= 0 THEN a \div b ELSE -((-a) \div b)

\* int(d.timestamp() * 1000), the arithmetic taken as exact
TimestampMs(d) == TruncDiv(d.us, 1000)

Returned(v) == [ok |-> TRUE, value |-> v]
Raised(e) == [ok |-> FALSE, exc |-> e]
NotCalled == [ok |-> FALSE, exc |-> ""]

Envelope(value, type, subtype, cls) ==
    DictV([value |-> value, type |-> type, subtype |-> subtype, class_name |-> cls])

----------------------------------------------------------------------------
(* utils.wrap_value *)

\* `if param_value is None` branch mutated: the type hint is dropped
wrap_none_untyped(tn, sn, cn) ==
    Returned(Envelope(NoneV, StrV("none"), sn, cn))

\* `if param_value is None` branch
wrap_none(tn, sn, cn) ==
    Returned(Envelope(NoneV, IF Truthy(tn) THEN tn ELSE StrV("none"), sn, cn))

\* `if type_name == "list" and isinstance(param_value, list)` branch
wrap_hinted_list(v, sn, cn) ==
    Returned(Envelope(
        ListV([i \in 1..Len(v.items) |->
                 IF IsEnum(v.items[i]) THEN v.items[i].value ELSE v.items[i]]),
        StrV("list"), sn, cn))

\* `case list()` mutated: the class is recorded but the subtype is not
wrap_list_no_subtype(v) ==
    IF Truthy(v) /\ IsEnum(v.items[1])
    THEN IF \A i \in 1..Len(v.items) : IsEnum(v.items[i])
         THEN Returned(Envelope(
                  ListV([i \in 1..Len(v.items) |-> v.items[i].value]),
                  StrV("list"), NoneV, StrV(v.items[1].cls)))
         ELSE Raised("AttributeError")
    ELSE Returned(Envelope(v, StrV("list"), NoneV, NoneV))

\* `case list()` mutated: the members are not reduced to their values
wrap_list_unreduced(v) ==
    IF Truthy(v) /\ IsEnum(v.items[1])
    THEN Returned(Envelope(v, StrV("list"), StrV("enum"), StrV(v.items[1].cls)))
    ELSE Returned(Envelope(v, StrV("list"), NoneV, NoneV))

\* `case list()`: only the first member decides; v.value of a member that is
\* not an enum member raises AttributeError
wrap_list(v) ==
    IF Truthy(v) /\ IsEnum(v.items[1])
    THEN IF \A i \in 1..Len(v.items) : IsEnum(v.items[i])
         THEN Returned(Envelope(
                  ListV([i \in 1..Len(v.items) |-> v.items[i].value]),
                  StrV("list"), StrV("enum"), StrV(v.items[1].cls)))
         ELSE Raised("AttributeError")
    ELSE Returned(Envelope(v, StrV("list"), NoneV, NoneV))

\* the match statement mutated: `case int()` tried before `case bool()`
match_value_int_first(v) ==
    IF IsInt(v) THEN Returned(Envelope(v, StrV("int"), NoneV, NoneV))
    ELSE IF IsBool(v) THEN Returned(Envelope(v, StrV("bool"), NoneV, NoneV))
    ELSE IF IsFloat(v) THEN Returned(Envelope(v, StrV("float"), NoneV, NoneV))
    ELSE IF IsStr(v) THEN Returned(Envelope(v, StrV("str"), NoneV, NoneV))
    ELSE IF IsDatetime(v)
         THEN Returned(Envelope(IntV(TimestampMs(v)), StrV("date"), NoneV, NoneV))
    ELSE IF IsEnum(v)
         THEN Returned(Envelope(v.value, StrV("enum"), NoneV, StrV(v.cls)))
    ELSE IF IsList(v) THEN wrap_list(v)
    ELSE IF IsDict(v) THEN Returned(Envelope(v, StrV("dict"), NoneV, NoneV))
    ELSE Raised("TypeError")

\* the match statement mutated: `case datetime()` returns the datetime itself
match_value_raw_date(v) ==
    IF IsBool(v) THEN Returned(Envelope(v, StrV("bool"), NoneV, NoneV))
    ELSE IF IsInt(v) THEN Returned(Envelope(v, StrV("int"), NoneV, NoneV))
    ELSE IF IsFloat(v) THEN Returned(Envelope(v, StrV("float"), NoneV, NoneV))
    ELSE IF IsStr(v) THEN Returned(Envelope(v, StrV("str"), NoneV, NoneV))
    ELSE IF IsDatetime(v)
         THEN Returned(Envelope(v, StrV("date"), NoneV, NoneV))
    ELSE IF IsEnum(v)
         THEN Returned(Envelope(v.value, StrV("enum"), NoneV, StrV(v.cls)))
    ELSE IF IsList(v) THEN wrap_list(v)
    ELSE IF IsDict(v) THEN Returned(Envelope(v, StrV("dict"), NoneV, NoneV))
    ELSE Raised("TypeError")

\* the match statement mutated: `case _` tags the value "unknown" and passes it on
match_value_permissive(v) ==
    IF IsBool(v) THEN Returned(Envelope(v, StrV("bool"), NoneV, NoneV))
    ELSE IF IsInt(v) THEN Returned(Envelope(v, StrV("int"), NoneV, NoneV))
    ELSE IF IsFloat(v) THEN Returned(Envelope(v, StrV("float"), NoneV, NoneV))
    ELSE IF IsStr(v) THEN Returned(Envelope(v, StrV("str"), NoneV, NoneV))
    ELSE IF IsDatetime(v)
         THEN Returned(Envelope(IntV(TimestampMs(v)), StrV("date"), NoneV, NoneV))
    ELSE IF IsEnum(v)
         THEN Returned(Envelope(v.value, StrV("enum"), NoneV, StrV(v.cls)))
    ELSE IF IsList(v) THEN wrap_list(v)
    ELSE IF IsDict(v) THEN Returned(Envelope(v, StrV("dict"), NoneV, NoneV))
    ELSE Returned(Envelope(v, StrV("unknown"), NoneV, NoneV))

\* the match statement: the first class pattern that matches wins
match_value(v) ==
    IF IsBool(v) THEN Returned(Envelope(v, StrV("bool"), NoneV, NoneV))
    ELSE IF IsInt(v) THEN Returned(Envelope(v, StrV("int"), NoneV, NoneV))
    ELSE IF IsFloat(v) THEN Returned(Envelope(v, StrV("float"), NoneV, NoneV))
    ELSE IF IsStr(v) THEN Returned(Envelope(v, StrV("str"), NoneV, NoneV))
    ELSE IF IsDatetime(v)
         THEN Returned(Envelope(IntV(TimestampMs(v)), StrV("date"), NoneV, NoneV))
    ELSE IF IsEnum(v)
         THEN Returned(Envelope(v.value, StrV("enum"), NoneV, StrV(v.cls)))
    ELSE IF IsList(v) THEN wrap_list(v)
    ELSE IF IsDict(v) THEN Returned(Envelope(v, StrV("dict"), NoneV, NoneV))
    ELSE Raised("TypeError")

wrap_value(v, tn, sn, cn) ==
    IF v.k = "none" THEN wrap_none(tn, sn, cn)
    ELSE IF tn = StrV("list") /\ IsList(v) THEN wrap_hinted_list(v, sn, cn)
    ELSE match_value(v)

----------------------------------------------------------------------------
(* json.dumps: JSON documents are trees tagged by j *)

JNull == [j |-> "null"]
JBool(b) == [j |-> "bool", b |-> b]
JInt(n) == [j |-> "int", n |-> n]
JFloat(x) == [j |-> "float", x |-> x]
JString(s) == [j |-> "string", s |-> s]
JArray(items) == [j |-> "array", items |-> items]
JObject(d) == [j |-> "object", d |-> d]

\* what the default JSONEncoder accepts: a member of a plain Enum, a datetime,
\* a set or an arbitrary object is not serializable
RECURSIVE JsonSerializable(_)
JsonSerializable(v) ==
    CASE v.k \in {"none", "bool", "int", "float", "str"} -> TRUE
      [] v.k = "enum" -> v.mix \in {"str", "int"}
      [] v.k \in {"list", "tuple"} ->
             \A i \in 1..Len(v.items) : JsonSerializable(v.items[i])
      [] v.k = "dict" -> \A f \in DOMAIN v.d : JsonSerializable(v.d[f])
      [] OTHER -> FALSE

\* a member of a str or int enum is written as its data-type value
RECURSIVE JsonOf(_)
JsonOf(v) ==
    CASE v.k = "none" -> JNull
      [] v.k = "bool" -> JBool(v.b)
      [] v.k = "int" -> JInt(v.n)
      [] v.k = "float" -> JFloat(v.x)
      [] v.k = "str" -> JString(v.s)
      [] v.k = "enum" /\ v.mix = "str" -> JString(v.value.s)
      [] v.k = "enum" /\ v.mix = "int" -> JInt(v.value.n)
      [] v.k \in {"list", "tuple"} ->
             JArray([i \in 1..Len(v.items) |-> JsonOf(v.items[i])])
      [] v.k = "dict" -> JObject([f \in DOMAIN v.d |-> JsonOf(v.d[f])])

json_dumps(v) ==
    IF JsonSerializable(v) THEN Returned(JsonOf(v)) ELSE Raised("TypeError")

----------------------------------------------------------------------------
(* health_schemas: Parameter Objects and to_wrapped *)

\* members of the library's enum classes used as arguments
READ == EnumV("DataAccess", "object", "READ", StrV("READ"))
WRITE == EnumV("DataAccess", "object", "WRITE", StrV("WRITE"))
MANUAL == EnumV("RecordingMethod", "object", "MANUAL", StrV("manual"))
STEPS == EnumV("HealthDataTypeAndroid", "object", "STEPS", StrV("STEPS"))
IOS_STEPS == EnumV("HealthDataTypeIOS", "object", "STEPS", StrV("STEPS"))
WEIGHT == EnumV("HealthDataTypeIOS", "object", "WEIGHT", StrV("WEIGHT"))
RUNNING == EnumV("HealthWorkoutActivityType", "object", "RUNNING", StrV("RUNNING"))
AUTOMATIC == EnumV("RecordingMethod", "object", "AUTOMATIC", StrV("automatic"))
NO_UNIT == EnumV("HealthDataUnit", "object", "NO_UNIT", StrV("NO_UNIT"))
KILOCALORIE == EnumV("HealthDataUnit", "object", "KILOCALORIE", StrV("KILOCALORIE"))

\* isinstance(t, HealthDataTypeAndroid | HealthDataTypeIOS | HealthWorkoutActivityType)
IsHealthType(t) ==
    /\ IsEnum(t)
    /\ t.cls \in {"HealthDataTypeAndroid", "HealthDataTypeIOS", "HealthWorkoutActivityType"}
IsDataAccess(t) == IsEnum(t) /\ t.cls = "DataAccess"

\* [x] * n
Repeat(x, n) == [i \in 1..n |-> x]

\* [m.value for m in items]
ValuesOfMembers(items) == [i \in 1..Len(items) |-> items[i].value]

\* a keyword argument the caller left out
Omitted == [k |-> "omitted"]

\* values.get(key) in a pre root validator
values_get(v) == IF v = Omitted THEN NoneV ELSE v

\* gt=0 mutated into ge=0
WaitTimeoutValid_ge(wt) ==
    \/ wt.k = "int" /\ wt.n >= 0
    \/ wt.k = "float" /\ wt.x >= 0

\* field validation of wait_timeout: float = Field(default=25, gt=0)
WaitTimeoutValid(wt) ==
    \/ wt.k = "int" /\ wt.n > 0
    \/ wt.k = "float" /\ wt.x > 0

\* the wait_timeout field of every Parameter Object: the default is taken as
\* it is written, a given number is validated and converted to float
wait_timeout_field(wt) ==
    IF wt = Omitted THEN Returned(IntV(25))
    ELSE IF WaitTimeoutValid(wt)
         THEN Returned(FloatV(IF wt.k = "int" THEN wt.n ELSE wt.x))
         ELSE Raised("ValidationError")

\* the validator mutated: the default access is WRITE
HealthAuthorizationParams_write(types, data_access, wt) ==
    LET da == IF values_get(data_access) = NoneV
              THEN ListV(Repeat(WRITE, Len(types.items)))
              ELSE data_access
        timeout == wait_timeout_field(wt)
    IN  IF /\ \A i \in 1..Len(types.items) : IsHealthType(types.items[i])
           /\ IsList(da)
           /\ \A i \in 1..Len(da.items) : IsDataAccess(da.items[i])
           /\ timeout.ok
        THEN Returned([cls |-> "HealthAuthorizationParams",
                       d |-> [types |-> types, data_access |-> da,
                              wait_timeout |-> timeout.value],
                       force_wrap |-> <<>>])
        ELSE Raised("ValidationError")

\* HealthAuthorizationParams(types=..., data_access=..., wait_timeout=...):
\* the pre root validator fills data_access, then the fields are validated;
\* nothing compares the two lengths
HealthAuthorizationParams(types, data_access, wt) ==
    LET da == IF values_get(data_access) = NoneV
              THEN ListV(Repeat(READ, Len(types.items)))
              ELSE data_access
        timeout == wait_timeout_field(wt)
    IN  IF /\ \A i \in 1..Len(types.items) : IsHealthType(types.items[i])
           /\ IsList(da)
           /\ \A i \in 1..Len(da.items) : IsDataAccess(da.items[i])
           /\ timeout.ok
        THEN Returned([cls |-> "HealthAuthorizationParams",
                       d |-> [types |-> types, data_access |-> da,
                              wait_timeout |-> timeout.value],
                       force_wrap |-> <<>>])
        ELSE Raised("ValidationError")

IsRecordingMethod(t) == IsEnum(t) /\ t.cls = "RecordingMethod"

\* the hints set_defaults_and_metadata stores in force_wrap
RecordingMethodHints ==
    [type_name |-> StrV("list"), subtype_name |-> StrV("enum"),
     class_name |-> StrV("RecordingMethod")]

\* set_defaults_and_metadata mutated: the empty list is filled in but
\* force_wrap is left alone
set_defaults_only(recording_method) ==
    IF values_get(recording_method) = NoneV
    THEN [recording_method |-> ListV(<<>>), force_wrap |-> <<>>]
    ELSE [recording_method |-> recording_method, force_wrap |-> <<>>]

\* the pre root validator of GetHealthDataParams and HealthIntervalDataParams,
\* the caller passing no force_wrap of their own
set_defaults_and_metadata(recording_method) ==
    IF values_get(recording_method) = NoneV
    THEN [recording_method |-> ListV(<<>>),
          force_wrap |-> [recording_method |-> RecordingMethodHints]]
    ELSE [recording_method |-> recording_method, force_wrap |-> <<>>]

GetHealthDataParams(types, start_time, end_time, recording_method, wt) ==
    LET values == set_defaults_and_metadata(recording_method)
        rm == values.recording_method
        timeout == wait_timeout_field(wt)
    IN  IF /\ IsList(types)
           /\ \A i \in 1..Len(types.items) : IsHealthType(types.items[i])
           /\ IsDatetime(start_time) /\ IsDatetime(end_time)
           /\ IsList(rm)
           /\ \A i \in 1..Len(rm.items) : IsRecordingMethod(rm.items[i])
           /\ timeout.ok
        THEN Returned([cls |-> "GetHealthDataParams",
                       d |-> [types |-> types, start_time |-> start_time,
                              end_time |-> end_time, recording_method |-> rm,
                              wait_timeout |-> timeout.value],
                       force_wrap |-> values.force_wrap])
        ELSE Raised("ValidationError")

HealthIntervalDataParams(start_time, end_time, types, interval, recording_method, wt) ==
    LET values == set_defaults_and_metadata(recording_method)
        rm == values.recording_method
        timeout == wait_timeout_field(wt)
    IN  IF /\ IsDatetime(start_time) /\ IsDatetime(end_time)
           /\ IsList(types)
           /\ \A i \in 1..Len(types.items) : IsHealthType(types.items[i])
           /\ interval.k = "int"
           /\ IsList(rm)
           /\ \A i \in 1..Len(rm.items) : IsRecordingMethod(rm.items[i])
           /\ timeout.ok
        THEN Returned([cls |-> "HealthIntervalDataParams",
                       d |-> [start_time |-> start_time, end_time |-> end_time,
                              types |-> types, interval |-> interval,
                              recording_method |-> rm,
                              wait_timeout |-> timeout.value],
                       force_wrap |-> values.force_wrap])
        ELSE Raised("ValidationError")

\* end_time: Optional[datetime] = None
DeleteParams(types, start_time, end_time, wt) ==
    LET timeout == wait_timeout_field(wt)
    IN  IF /\ IsHealthType(types)
           /\ IsDatetime(start_time)
           /\ values_get(end_time) = NoneV \/ IsDatetime(end_time)
           /\ timeout.ok
        THEN Returned([cls |-> "DeleteParams",
                       d |-> [types |-> types, start_time |-> start_time,
                              end_time |-> values_get(end_time),
                              wait_timeout |-> timeout.value],
                       force_wrap |-> <<>>])
        ELSE Raised("ValidationError")

\* types: Optional[...] = None,  -- the trailing comma makes the default the
\* tuple (None,), which is stored as it is written
DeleteByUUIDParams(uuid, types, wt) ==
    LET timeout == wait_timeout_field(wt)
    IN  IF /\ IsStr(uuid)
           /\ types = Omitted \/ types = NoneV \/ IsHealthType(types)
           /\ timeout.ok
        THEN Returned([cls |-> "DeleteByUUIDParams",
                       d |-> [uuid |-> uuid,
                              types |-> IF types = Omitted
                                        THEN TupleV(<<NoneV>>) ELSE types,
                              wait_timeout |-> timeout.value],
                       force_wrap |-> <<>>])
        ELSE Raised("ValidationError")

\* WrappedBaseModel.to_wrapped: every field but force_wrap goes through
\* wrap_value with the hints force_wrap holds for it, then json.dumps; when
\* wrap_value raises for a field, to_wrapped raises
to_wrapped(obj) ==
    LET hint(key, h) == IF key \in DOMAIN obj.force_wrap
                        THEN obj.force_wrap[key][h]
                        ELSE NoneV
        wrapped == [key \in DOMAIN obj.d |->
                       wrap_value(obj.d[key], hint(key, "type_name"),
                                  hint(key, "subtype_name"),
                                  hint(key, "class_name"))]
    IN  IF \E key \in DOMAIN obj.d : ~wrapped[key].ok
        THEN Raised(wrapped[CHOOSE key \in DOMAIN obj.d : ~wrapped[key].ok].exc)
        ELSE json_dumps(DictV([key \in DOMAIN obj.d |-> wrapped[key].value]))

----------------------------------------------------------------------------
(* flet_health.Health: the call wrappers *)

\* one call of Control.invoke_method / invoke_method_async
Invocation(method_name, arguments, wait_for_result, wait_timeout) ==
    [method_name |-> method_name, arguments |-> arguments,
     wait_for_result |-> wait_for_result, wait_timeout |-> wait_timeout]

\* arguments={"data": data}
DataArg(data) == [data |-> data]

\* what a wrapper call did: the channel invocations it made and how it ended
Ran(invocations, end) == [invoked |-> invocations, outcome |-> end]

\* the payload built as the Parameter Objects build it: one envelope a field
authorization_payload_wrapped(types, data_access) ==
    DictV([types |-> wrap_value(types, NoneV, NoneV, NoneV).value,
           data_access |-> wrap_value(data_access, NoneV, NoneV, NoneV).value])

\* request_authorization's payload: the members' values, and null in place of
\* an empty data_access
authorization_payload(types, data_access) ==
    DictV([types |-> ListV([i \in 1..Len(types.items) |-> types.items[i].value]),
           data_access |->
               IF Truthy(data_access)
               THEN ListV([i \in 1..Len(data_access.items) |->
                             data_access.items[i].value])
               ELSE NoneV])

\* has_permissions' payload
permissions_payload(types, data_access) ==
    DictV([types |-> ListV([i \in 1..Len(types.items) |-> types.items[i].value]),
           data_access |->
               ListV([i \in 1..Len(data_access.items) |->
                        data_access.items[i].value])])

\* mutated: the sizes of data_access and types are not compared
AuthorizationArgsError_any_size(types, data_access) ==
    IF ~\A i \in 1..Len(types.items) : IsHealthType(types.items[i])
    THEN "ValueError"
    ELSE IF data_access = NoneV THEN ""
    ELSE IF ~\A i \in 1..Len(data_access.items) : IsDataAccess(data_access.items[i])
    THEN "ValueError"
    ELSE ""

\* the argument checks shared by request_authorization and has_permissions:
\* the error raised, or "" when the arguments pass
AuthorizationArgsError(types, data_access) ==
    IF ~\A i \in 1..Len(types.items) : IsHealthType(types.items[i])
    THEN "ValueError"
    ELSE IF data_access = NoneV THEN ""
    ELSE IF ~\A i \in 1..Len(data_access.items) : IsDataAccess(data_access.items[i])
    THEN "ValueError"
    ELSE IF Len(data_access.items) # Len(types.items) THEN "ValueError"
    ELSE ""

\* data_access after `if data_access is None: data_access = [READ] * len(types)`
DefaultedAccess(types, data_access) ==
    IF data_access = NoneV
    THEN ListV(Repeat(READ, Len(types.items)))
    ELSE data_access

request_authorization(types, data_access, wait_timeout, reply) ==
    IF AuthorizationArgsError(types, data_access) # ""
    THEN Ran(<<>>, Raised(AuthorizationArgsError(types, data_access)))
    ELSE LET data == json_dumps(authorization_payload(
                         types, DefaultedAccess(types, data_access)))
         IN  IF ~data.ok THEN Ran(<<>>, Raised(data.exc))
             ELSE Ran(<<Invocation("request_authorization", DataArg(data.value),
                                   TRUE, wait_timeout)>>,
                      Returned(BoolV(reply = StrV("true"))))

request_authorization_async(types, data_access, wait_timeout, reply) ==
    IF AuthorizationArgsError(types, data_access) # ""
    THEN Ran(<<>>, Raised(AuthorizationArgsError(types, data_access)))
    ELSE LET data == json_dumps(authorization_payload(
                         types, DefaultedAccess(types, data_access)))
         IN  IF ~data.ok THEN Ran(<<>>, Raised(data.exc))
             ELSE Ran(<<Invocation("request_authorization", DataArg(data.value),
                                   TRUE, wait_timeout)>>,
                      Returned(BoolV(reply = StrV("true"))))

\* the final else mutated: anything but "true" is False
PermissionsAnswer_bool(reply) ==
    IF reply = StrV("true") THEN BoolV(TRUE) ELSE BoolV(FALSE)

\* True for "true", False for "false", None for anything else
PermissionsAnswer(reply) ==
    IF reply = StrV("true") THEN BoolV(TRUE)
    ELSE IF reply = StrV("false") THEN BoolV(FALSE)
    ELSE NoneV

has_permissions(types, data_access, wait_timeout, reply) ==
    IF AuthorizationArgsError(types, data_access) # ""
    THEN Ran(<<>>, Raised(AuthorizationArgsError(types, data_access)))
    ELSE LET data == json_dumps(permissions_payload(
                         types, DefaultedAccess(types, data_access)))
         IN  IF ~data.ok THEN Ran(<<>>, Raised(data.exc))
             ELSE Ran(<<Invocation("has_permissions", DataArg(data.value),
                                   TRUE, wait_timeout)>>,
                      Returned(PermissionsAnswer(reply)))

has_permissions_async(types, data_access, wait_timeout, reply) ==
    IF AuthorizationArgsError(types, data_access) # ""
    THEN Ran(<<>>, Raised(AuthorizationArgsError(types, data_access)))
    ELSE LET data == json_dumps(permissions_payload(
                         types, DefaultedAccess(types, data_access)))
         IN  IF ~data.ok THEN Ran(<<>>, Raised(data.exc))
             ELSE Ran(<<Invocation("has_permissions", DataArg(data.value),
                                   TRUE, wait_timeout)>>,
                      Returned(PermissionsAnswer(reply)))

\* write_health_data's payload: x.value of an argument that has no .value
\* raises AttributeError before anything is sent
write_health_data_payload(value, start_time, end_time, types, unit, recording_method) ==
    DictV([value |-> value,
           types |-> types.value,
           start_time |-> IntV(TimestampMs(start_time)),
           end_time |-> IntV(TimestampMs(end_time)),
           unit |-> IF Truthy(unit) THEN unit.value ELSE NO_UNIT.value,
           recording_method |->
               IF Truthy(recording_method) THEN recording_method.value
               ELSE AUTOMATIC.value])

write_health_data(value, start_time, end_time, types, unit, recording_method, wait_timeout, reply) ==
    IF \/ ~IsEnum(types)
       \/ (Truthy(unit) /\ ~IsEnum(unit))
       \/ (Truthy(recording_method) /\ ~IsEnum(recording_method))
    THEN Ran(<<>>, Raised("AttributeError"))
    ELSE LET data == json_dumps(write_health_data_payload(
                         value, start_time, end_time, types, unit, recording_method))
         IN  IF ~data.ok THEN Ran(<<>>, Raised(data.exc))
             ELSE Ran(<<Invocation("write_health_data", DataArg(data.value),
                                   TRUE, wait_timeout)>>,
                      Returned(BoolV(reply = StrV("true"))))

\* delete's payload
delete_payload(types, start_time, end_time) ==
    DictV([types |-> IF Truthy(types) THEN types.value ELSE StrV(""),
           start_time |-> IntV(TimestampMs(start_time)),
           end_time |-> IF Truthy(end_time) THEN IntV(TimestampMs(end_time))
                        ELSE NoneV])

\* delete sends the method name "delete_by_uuid"
delete(types, start_time, end_time, wait_timeout, reply) ==
    IF Truthy(types) /\ ~IsEnum(types)
    THEN Ran(<<>>, Raised("AttributeError"))
    ELSE LET data == json_dumps(delete_payload(types, start_time, end_time))
         IN  IF ~data.ok THEN Ran(<<>>, Raised(data.exc))
             ELSE Ran(<<Invocation("delete_by_uuid", DataArg(data.value),
                                   TRUE, wait_timeout)>>,
                      Returned(BoolV(reply = StrV("true"))))

\* more members of the library's enum classes
METER == EnumV("HealthDataUnit", "object", "METER", StrV("METER"))
BREAKFAST == EnumV("MealType", "object", "BREAKFAST", StrV("BREAKFAST"))
LIGHT == EnumV("MenstrualFlow", "object", "LIGHT", StrV("light"))
BASAL == EnumV("InsulinDeliveryReason", "object", "BASAL", StrV("basal"))

\* the tail the success-flag wrappers share: json.dumps of the payload, one
\* invocation, and `return result == "true"`
flag_call(method_name, payload, wait_timeout, reply) ==
    LET data == json_dumps(payload)
    IN  IF ~data.ok THEN Ran(<<>>, Raised(data.exc))
        ELSE Ran(<<Invocation(method_name, DataArg(data.value), TRUE, wait_timeout)>>,
                 Returned(BoolV(reply = StrV("true"))))

\* `return opened == "true"` mutated into `return bool(opened)`
open_app_settings_truthy(wait_timeout, reply) ==
    Ran(<<Invocation("open_app_settings", NoneV, TRUE, wait_timeout)>>,
        Returned(BoolV(Truthy(reply))))

open_app_settings(wait_timeout, reply) ==
    Ran(<<Invocation("open_app_settings", NoneV, TRUE, wait_timeout)>>,
        Returned(BoolV(reply = StrV("true"))))

\* Android only: on iOS nothing is sent and the answer is True
request_health_data_history_authorization(platform, wait_timeout, reply) ==
    IF platform = "ios" THEN Ran(<<>>, Returned(BoolV(TRUE)))
    ELSE Ran(<<Invocation("request_health_data_history_authorization",
                          NoneV, TRUE, wait_timeout)>>,
             Returned(BoolV(reply = StrV("true"))))

request_health_data_in_background_authorization(platform, wait_timeout, reply) ==
    IF platform = "ios" THEN Ran(<<>>, Returned(BoolV(TRUE)))
    ELSE Ran(<<Invocation("request_health_data_in_background_authorization",
                          NoneV, TRUE, wait_timeout)>>,
             Returned(BoolV(reply = StrV("true"))))

write_blood_oxygen(saturation, start_time, end_time, recording_method, wait_timeout, reply) ==
    IF Truthy(recording_method) /\ ~IsRecordingMethod(recording_method)
    THEN Ran(<<>>, Raised("ValueError"))
    ELSE IF ~IsEnum(recording_method) THEN Ran(<<>>, Raised("AttributeError"))
    ELSE flag_call("write_blood_oxygen",
                   DictV([saturation |-> saturation,
                          start_time |-> IntV(TimestampMs(start_time)),
                          end_time |-> IntV(TimestampMs(end_time)),
                          recording_method |-> recording_method.value]),
                   wait_timeout, reply)

\* a: activity_type, start_time, end_time, total_energy_burned,
\* total_energy_burned_unit, total_distance, total_distance_unit, title,
\* recording_method
write_workout_data(a, wait_timeout, reply) ==
    IF \/ ~IsEnum(a.activity_type)
       \/ (Truthy(a.total_energy_burned_unit) /\ ~IsEnum(a.total_energy_burned_unit))
       \/ (Truthy(a.total_distance_unit) /\ ~IsEnum(a.total_distance_unit))
       \/ (Truthy(a.recording_method) /\ ~IsEnum(a.recording_method))
    THEN Ran(<<>>, Raised("AttributeError"))
    ELSE flag_call("write_workout_data",
                   DictV([activity_type |-> a.activity_type.value,
                          start_time |-> IntV(TimestampMs(a.start_time)),
                          end_time |-> IntV(TimestampMs(a.end_time)),
                          total_energy_burned |-> a.total_energy_burned,
                          total_energy_burned_unit |->
                              IF Truthy(a.total_energy_burned_unit)
                              THEN a.total_energy_burned_unit.value
                              ELSE KILOCALORIE.value,
                          total_distance |-> a.total_distance,
                          total_distance_unit |->
                              IF Truthy(a.total_distance_unit)
                              THEN a.total_distance_unit.value
                              ELSE METER.value,
                          title |-> a.title,
                          recording_method |->
                              IF Truthy(a.recording_method)
                              THEN a.recording_method.value
                              ELSE AUTOMATIC.value]),
                   wait_timeout, reply)

\* recording_method goes into the payload as it is, not as its value
write_blood_pressure(systolic, diastolic, start_time, recording_method, wait_timeout, reply) ==
    flag_call("write_blood_pressure",
              DictV([systolic |-> systolic,
                     diastolic |-> diastolic,
                     start_time |-> IntV(TimestampMs(start_time)),
                     recording_method |->
                         IF Truthy(recording_method) THEN recording_method
                         ELSE NoneV]),
              wait_timeout, reply)

\* the optional arguments of write_meal that go into the payload unchanged
MealNutrients ==
    {"calories_consumed", "carbohydrates", "protein", "fat_total", "name",
     "caffeine", "vitamin_a", "b1_thiamin", "b2_riboflavin", "b3_niacin",
     "b5_pantothenic_acid", "b6_pyridoxine", "b7_biotin", "b9_folate",
     "b12_cobalamin", "vitamin_c", "vitamin_d", "vitamin_e", "vitamin_k",
     "calcium", "cholesterol", "chloride", "chromium", "copper",
     "fat_unsaturated", "fat_monounsaturated", "fat_polyunsaturated",
     "fat_saturated", "fat_trans_monoenoic", "fiber", "iodine", "iron",
     "magnesium", "manganese", "molybdenum", "phosphorus", "potassium",
     "selenium", "sodium", "sugar", "water", "zinc"}

\* nutrients: the value of every argument of MealNutrients
write_meal(meal_type, start_time, end_time, nutrients, recording_method, wait_timeout, reply) ==
    IF ~IsEnum(meal_type) THEN Ran(<<>>, Raised("AttributeError"))
    ELSE flag_call("write_meal",
                   DictV([f \in MealNutrients \cup
                                {"meal_type", "start_time", "end_time",
                                 "recording_method"} |->
                             CASE f = "meal_type" -> meal_type.value
                               [] f = "start_time" -> IntV(TimestampMs(start_time))
                               [] f = "end_time" -> IntV(TimestampMs(end_time))
                               [] f = "recording_method" -> recording_method
                               [] OTHER -> nutrients[f]]),
                   wait_timeout, reply)

\* a: frequencies, left_ear_sensitivities, right_ear_sensitivities,
\* start_time, end_time, metadata
write_audiogram(platform, a, wait_timeout, reply) ==
    IF platform = "android" THEN Ran(<<>>, Raised("ValueError"))
    ELSE flag_call("write_audiogram",
                   DictV([frequencies |-> a.frequencies,
                          left_ear_sensitivities |-> a.left_ear_sensitivities,
                          right_ear_sensitivities |-> a.right_ear_sensitivities,
                          start_time |-> IntV(TimestampMs(a.start_time)),
                          end_time |-> IntV(TimestampMs(a.end_time)),
                          metadata |-> a.metadata]),
                   wait_timeout, reply)

write_menstruation_flow(flow, start_time, end_time, is_start_of_cycle, recording_method, wait_timeout, reply) ==
    IF ~IsEnum(flow) THEN Ran(<<>>, Raised("AttributeError"))
    ELSE flag_call("write_menstruation_flow",
                   DictV([flow |-> flow.value,
                          start_time |-> IntV(TimestampMs(start_time)),
                          end_time |-> IntV(TimestampMs(end_time)),
                          is_start_of_cycle |-> is_start_of_cycle,
                          recording_method |->
                              IF Truthy(recording_method) THEN recording_method
                              ELSE NoneV]),
                   wait_timeout, reply)

\* reason goes into the payload as it is, not as its value
write_insulin_delivery(units, reason, start_time, end_time, wait_timeout, reply) ==
    flag_call("write_insulin_delivery",
              DictV([units |-> units,
                     reason |-> reason,
                     start_time |-> IntV(TimestampMs(start_time)),
                     end_time |-> IntV(TimestampMs(end_time))]),
              wait_timeout, reply)

delete_by_uuid(uuid, types, wait_timeout, reply) ==
    IF Truthy(types) /\ ~IsEnum(types)
    THEN Ran(<<>>, Raised("AttributeError"))
    ELSE flag_call("delete_by_uuid",
                   DictV([uuid |-> uuid,
                          types |-> IF Truthy(types) THEN types.value ELSE StrV("")]),
                   wait_timeout, reply)

\* Android only: on any other platform nothing is sent.  The call passes
\* method_name alone, so wait_for_result is invoke_method's default and no
\* wait_timeout is given
revoke_permissions(platform) ==
    IF platform = "android"
    THEN Ran(<<Invocation("revoke_permissions", NoneV, FALSE, Omitted)>>,
             Returned(NoneV))
    ELSE Ran(<<>>, Returned(NoneV))

install_health_connect(platform) ==
    IF platform = "android"
    THEN Ran(<<Invocation("install_health_connect", NoneV, FALSE, Omitted)>>,
             Returned(NoneV))
    ELSE Ran(<<>>, Returned(NoneV))

\* mutated: a null reply is asked for once more
get_health_connect_sdk_status_retry(platform, wait_timeout, reply) ==
    IF platform # "android" THEN Ran(<<>>, Returned(NoneV))
    ELSE Ran(IF reply = NoneV
             THEN <<Invocation("get_health_connect_sdk_status", NoneV, TRUE, wait_timeout),
                    Invocation("get_health_connect_sdk_status", NoneV, TRUE, wait_timeout)>>
             ELSE <<Invocation("get_health_connect_sdk_status", NoneV, TRUE, wait_timeout)>>,
             Returned(BoolV(reply = StrV("HealthConnectSdkStatus.sdkAvailable"))))

get_health_connect_sdk_status(platform, wait_timeout, reply) ==
    IF platform # "android" THEN Ran(<<>>, Returned(NoneV))
    ELSE Ran(<<Invocation("get_health_connect_sdk_status", NoneV, TRUE, wait_timeout)>>,
             Returned(BoolV(reply = StrV("HealthConnectSdkStatus.sdkAvailable"))))

\* invoke_method_async is called without await: result is the coroutine
\* object, which equals no string, and the coroutine is never run, so no
\* invocation reaches the channel
get_health_connect_sdk_status_async(platform, wait_timeout, reply) ==
    IF platform # "android" THEN Ran(<<>>, Returned(NoneV))
    ELSE Ran(<<>>, Returned(BoolV(FALSE)))

----------------------------------------------------------------------------
(* flet_health.Health: the wrappers that decode their reply *)

\* json.loads on the reply texts the channel is taken to give; any other
\* text, the empty one included, is not a JSON document
json_loads(s) ==
    CASE s = "[]" -> Returned(ListV(<<>>))
      [] s = "[1, 2]" -> Returned(ListV(<<IntV(1), IntV(2)>>))
      [] s = "[2, 1]" -> Returned(ListV(<<IntV(2), IntV(1)>>))
      [] s = "[{\"a\": 1}]" -> Returned(ListV(<<DictV([a |-> IntV(1)])>>))
      [] s = "{\"a\": 1}" -> Returned(DictV([a |-> IntV(1)]))
      [] s = "1" -> Returned(IntV(1))
      [] s = "2" -> Returned(IntV(2))
      [] s = "true" -> Returned(BoolV(TRUE))
      [] s = "{}" -> Returned(DictV(<<>>))
      [] s = "{\"activity_recognition\": \"granted\"}" ->
             Returned(DictV([activity_recognition |-> StrV("granted")]))
      [] s = "{\"activity_recognition\": \"denied\"}" ->
             Returned(DictV([activity_recognition |-> StrV("denied")]))
      [] s = "{\"activity_recognition\": \"bogus\"}" ->
             Returned(DictV([activity_recognition |-> StrV("bogus")]))
      [] s = "{\"activity_recognition\": \"granted\", \"location\": \"granted\"}" ->
             Returned(DictV([activity_recognition |-> StrV("granted"),
                             location |-> StrV("granted")]))
      [] s = "{\"activity_recognition\": \"granted\", \"location\": \"denied\"}" ->
             Returned(DictV([activity_recognition |-> StrV("granted"),
                             location |-> StrV("denied")]))
      [] OTHER -> Raised("JSONDecodeError")

\* int(s) of a str
int_of_str(s) ==
    CASE s = "1" -> Returned(IntV(1))
      [] s = "2" -> Returned(IntV(2))
      [] OTHER -> Raised("ValueError")

\* members of Permissions and PermissionStatus
ACTIVITY_RECOGNITION ==
    EnumV("Permissions", "object", "ACTIVITY_RECOGNITION", StrV("activity_recognition"))
LOCATION == EnumV("Permissions", "object", "LOCATION", StrV("location"))
GRANTED == EnumV("PermissionStatus", "object", "GRANTED", StrV("granted"))
DENIED == EnumV("PermissionStatus", "object", "DENIED", StrV("denied"))
PERMANENTLY_DENIED ==
    EnumV("PermissionStatus", "object", "PERMANENTLY_DENIED", StrV("permanentlyDenied"))

IsPermission(p) == IsEnum(p) /\ p.cls = "Permissions"

\* PermissionStatus(value): the member with that value, or ValueError
PermissionStatus(value) ==
    IF \E m \in {GRANTED, DENIED, PERMANENTLY_DENIED} : m.value = value
    THEN Returned(CHOOSE m \in {GRANTED, DENIED, PERMANENTLY_DENIED} : m.value = value)
    ELSE Raised("ValueError")

request_permission(permission, wait_timeout, reply) ==
    IF ~IsPermission(permission) THEN Ran(<<>>, Raised("ValueError"))
    ELSE LET data_str == json_dumps(DictV([permission |-> permission.value]))
         IN  IF ~data_str.ok THEN Ran(<<>>, Raised(data_str.exc))
             ELSE Ran(<<Invocation("request_permission", DataArg(data_str.value),
                                   TRUE, wait_timeout)>>,
                      IF reply # NoneV THEN PermissionStatus(reply)
                      ELSE Returned(NoneV))

check_permission(permission, wait_timeout, reply) ==
    IF ~IsPermission(permission) THEN Ran(<<>>, Raised("ValueError"))
    ELSE LET data_str == json_dumps(DictV([permission |-> permission.value]))
         IN  IF ~data_str.ok THEN Ran(<<>>, Raised(data_str.exc))
             ELSE Ran(<<Invocation("check_permission", DataArg(data_str.value),
                                   TRUE, wait_timeout)>>,
                      IF reply # NoneV THEN PermissionStatus(reply)
                      ELSE Returned(NoneV))

\* the dict comprehension over result_dict.items()
statuses_of(loaded) ==
    IF ~loaded.ok THEN loaded
    ELSE IF ~IsDict(loaded.value) THEN Raised("AttributeError")
    ELSE IF \E f \in DOMAIN loaded.value.d : ~PermissionStatus(loaded.value.d[f]).ok
    THEN Raised("ValueError")
    ELSE Returned(DictV([f \in DOMAIN loaded.value.d |->
                             PermissionStatus(loaded.value.d[f]).value]))

request_multiple_permissions(permissions, wait_timeout, reply) ==
    IF ~\A i \in 1..Len(permissions.items) : IsPermission(permissions.items[i])
    THEN Ran(<<>>, Raised("ValueError"))
    ELSE LET data_str == json_dumps(DictV([permissions |->
                                              ListV(ValuesOfMembers(permissions.items))]))
         IN  IF ~data_str.ok THEN Ran(<<>>, Raised(data_str.exc))
             ELSE Ran(<<Invocation("request_multiple_permissions",
                                   DataArg(data_str.value), TRUE, wait_timeout)>>,
                      IF reply = NoneV THEN Returned(DictV(<<>>))
                      ELSE statuses_of(json_loads(reply.s)))

\* all(status == PermissionStatus.GRANTED for status in statuses.values())
request_and_validate_permissions(permissions, wait_timeout, reply) ==
    LET asked == request_multiple_permissions(permissions, wait_timeout, reply)
        statuses == asked.outcome
    IN  IF ~statuses.ok THEN asked
        ELSE Ran(asked.invoked,
                 Returned(BoolV(\A f \in DOMAIN statuses.value.d :
                                    statuses.value.d[f] = GRANTED)))

get_total_steps_in_interval(start_time, end_time, include_manual_entry, wait_timeout, reply) ==
    LET data == json_dumps(DictV([start_time |-> IntV(TimestampMs(start_time)),
                                  end_time |-> IntV(TimestampMs(end_time)),
                                  include_manual_entry |-> include_manual_entry]))
    IN  IF ~data.ok THEN Ran(<<>>, Raised(data.exc))
        ELSE Ran(<<Invocation("get_total_steps_in_interval", DataArg(data.value),
                              TRUE, wait_timeout)>>,
                 IF Truthy(reply) THEN int_of_str(reply.s) ELSE Returned(NoneV))

\* `if result` mutated into `if result is not None`
get_health_aggregate_data_from_types_not_none(types, start_time, end_time, activity_segment_duration, include_manual_entry, wait_timeout, reply) ==
    IF ~\A i \in 1..Len(types.items) : IsHealthType(types.items[i])
    THEN Ran(<<>>, Raised("ValueError"))
    ELSE LET data == json_dumps(DictV(
                         [types |-> ListV(ValuesOfMembers(types.items)),
                          start_time |-> IntV(TimestampMs(start_time)),
                          end_time |-> IntV(TimestampMs(end_time)),
                          activity_segment_duration |-> activity_segment_duration,
                          include_manual_entry |-> include_manual_entry]))
         IN  IF ~data.ok THEN Ran(<<>>, Raised(data.exc))
             ELSE Ran(<<Invocation("get_health_aggregate_data_from_types",
                                   DataArg(data.value), TRUE, wait_timeout)>>,
                      IF reply # NoneV THEN json_loads(reply.s)
                      ELSE Returned(ListV(<<>>)))

\* no try/except: what json.loads raises reaches the caller
get_health_aggregate_data_from_types(types, start_time, end_time, activity_segment_duration, include_manual_entry, wait_timeout, reply) ==
    IF ~\A i \in 1..Len(types.items) : IsHealthType(types.items[i])
    THEN Ran(<<>>, Raised("ValueError"))
    ELSE LET data == json_dumps(DictV(
                         [types |-> ListV(ValuesOfMembers(types.items)),
                          start_time |-> IntV(TimestampMs(start_time)),
                          end_time |-> IntV(TimestampMs(end_time)),
                          activity_segment_duration |-> activity_segment_duration,
                          include_manual_entry |-> include_manual_entry]))
         IN  IF ~data.ok THEN Ran(<<>>, Raised(data.exc))
             ELSE Ran(<<Invocation("get_health_aggregate_data_from_types",
                                   DataArg(data.value), TRUE, wait_timeout)>>,
                      IF Truthy(reply) THEN json_loads(reply.s)
                      ELSE Returned(ListV(<<>>)))

\* `except Exception: print(...); return []` around a wrapper's whole body
swallowed(ran) ==
    IF ran.outcome.ok THEN ran ELSE Ran(ran.invoked, Returned(ListV(<<>>)))

\* the argument checks inside the try block of the two data readers
DataArgsValid(types, recording_method) ==
    /\ Truthy(recording_method) =>
           /\ IsList(recording_method)
           /\ \A i \in 1..Len(recording_method.items) :
                  IsRecordingMethod(recording_method.items[i])
    /\ \A i \in 1..Len(types.items) : IsHealthType(types.items[i])

\* [rm.value for rm in recording_method] if recording_method else []
recording_method_values(recording_method) ==
    IF Truthy(recording_method)
    THEN ListV(ValuesOfMembers(recording_method.items))
    ELSE ListV(<<>>)

get_health_data_from_types(types, start_time, end_time, recording_method, wait_timeout, reply) ==
    swallowed(
        IF ~DataArgsValid(types, recording_method)
        THEN Ran(<<>>, Raised("ValueError"))
        ELSE LET data == json_dumps(DictV(
                             [types |-> ListV(ValuesOfMembers(types.items)),
                              start_time |-> IntV(TimestampMs(start_time)),
                              end_time |-> IntV(TimestampMs(end_time)),
                              recording_method |->
                                  recording_method_values(recording_method)]))
             IN  IF ~data.ok THEN Ran(<<>>, Raised(data.exc))
                 ELSE Ran(<<Invocation("get_health_data_from_types",
                                       DataArg(data.value), TRUE, wait_timeout)>>,
                          IF Truthy(reply) THEN json_loads(reply.s)
                          ELSE Returned(ListV(<<>>))))

get_health_interval_data_from_types(start_time, end_time, types, interval, recording_method, wait_timeout, reply) ==
    swallowed(
        IF ~DataArgsValid(types, recording_method)
        THEN Ran(<<>>, Raised("ValueError"))
        ELSE LET data == json_dumps(DictV(
                             [start_time |-> IntV(TimestampMs(start_time)),
                              end_time |-> IntV(TimestampMs(end_time)),
                              types |-> ListV(ValuesOfMembers(types.items)),
                              interval |-> interval,
                              recording_method |->
                                  recording_method_values(recording_method)]))
             IN  IF ~data.ok THEN Ran(<<>>, Raised(data.exc))
                 ELSE Ran(<<Invocation("get_health_interval_data_from_types",
                                       DataArg(data.value), TRUE, wait_timeout)>>,
                          IF Truthy(reply) THEN json_loads(reply.s)
                          ELSE Returned(ListV(<<>>))))

----------------------------------------------------------------------------
(* The inputs of wrap_value *)

\* Enum members of classes other than the library's: Weekday(Enum) has int
\* values; Color(str, Enum) and Level(IntEnum) stand for enum classes that
\* also derive from a data type.
MONDAY == EnumV("Weekday", "object", "MONDAY", IntV(1))
RED == EnumV("Color", "str", "RED", StrV("red"))
LOW == EnumV("Level", "int", "LOW", IntV(1))

EnumMembers == {READ, WRITE, MANUAL, MONDAY, RED, LOW}

Datetimes == {DatetimeV(500 * h) : h \in -MaxHalfMs..MaxHalfMs}

Scalars ==
    {BoolV(TRUE), BoolV(FALSE)}
        \cup {IntV(n) : n \in -MaxInt..MaxInt}
        \cup {FloatV(0), FloatV(15)}
        \cup {StrV(""), StrV("a")}
        \cup Datetimes
        \cup EnumMembers

\* what a list may hold
ListItems == {IntV(1), StrV("a"), READ, WRITE, MANUAL, RED, STEPS, IOS_STEPS}

SeqsUpTo(S, n) == UNION {[1..m -> S] : m \in 0..n}

Lists == {ListV(s) : s \in SeqsUpTo(ListItems, MaxLen)}

Dicts == {DictV(<<>>), DictV([a |-> IntV(1)])}

\* values of no supported class
Unsupported == {TupleV(<<>>), TupleV(<<READ>>), SetV, ObjectV}

Values == {NoneV} \cup Scalars \cup Lists \cup Dicts \cup Unsupported

TypeHints == {NoneV, StrV(""), StrV("list"), StrV("enum"), StrV("unknown")}
SubtypeHints == {NoneV, StrV("enum")}
ClassHints == {NoneV, StrV("RecordingMethod")}

----------------------------------------------------------------------------
(* The encoder called once on any input *)

NoCall == [op |-> "none"]

InitWrap ==
    /\ pc = "call"
    /\ param_value \in Values
    /\ type_name \in TypeHints
    /\ subtype_name \in SubtypeHints
    /\ class_name \in ClassHints
    /\ result = NotCalled
    /\ ctor = NoCall
    /\ instance = NotCalled
    /\ document = NotCalled
    /\ call = NoCall
    /\ invoked = <<>>
    /\ outcome = NotCalled

WrapValue ==
    /\ pc = "call"
    /\ result' = wrap_value(param_value, type_name, subtype_name, class_name)
    /\ pc' = "done"
    /\ UNCHANGED <<param_value, type_name, subtype_name, class_name>>
    /\ UNCHANGED paramVars
    /\ UNCHANGED wrapperVars

SpecWrap == InitWrap /\ [][WrapValue]_vars

----------------------------------------------------------------------------
(* The wrappers called with any arguments and any reply of the channel *)

\* Every wrapper has an _async twin made of the same statements with await;
\* where an action draws op from a name and its _async twin, one operator
\* stands for both.

MaxTypes == 2      \* longest types / data_access list passed to a wrapper

\* a foreign element is a str that is no member's value
TypesArgs == {ListV(q) : q \in SeqsUpTo({STEPS, WEIGHT, RUNNING, StrV("bogus")}, MaxTypes)}
AccessArgs ==
    {NoneV} \cup {ListV(q) : q \in SeqsUpTo({READ, WRITE, StrV("bogus")}, MaxTypes)}
Timeouts == {IntV(25), FloatV(5)}

\* what the channel answers: None on a timeout, else a string
Replies == {NoneV, StrV("true"), StrV("false"), StrV(""), StrV("True")}

WriteTimes == {DatetimeV(-1500), DatetimeV(2500)}

InitHealth ==
    /\ pc = "idle"
    /\ param_value = NoneV
    /\ type_name = NoneV
    /\ subtype_name = NoneV
    /\ class_name = NoneV
    /\ result = NotCalled
    /\ ctor = NoCall
    /\ instance = NotCalled
    /\ document = NotCalled
    /\ call = NoCall
    /\ invoked = <<>>
    /\ outcome = NotCalled

\* a wrapper runs from its call to its return or raise in one step
Calls(c, ran) ==
    /\ pc' = "returned"
    /\ call' = c
    /\ invoked' = ran.invoked
    /\ outcome' = ran.outcome
    /\ UNCHANGED <<param_value, type_name, subtype_name, class_name, result>>
    /\ UNCHANGED paramVars

\* the caller drops the result; the control keeps nothing of the call
Forget ==
    /\ pc = "returned"
    /\ pc' = "idle"
    /\ call' = NoCall
    /\ invoked' = <<>>
    /\ outcome' = NotCalled
    /\ UNCHANGED <<param_value, type_name, subtype_name, class_name, result>>
    /\ UNCHANGED paramVars

RequestAuthorization ==
    /\ pc = "idle"
    /\ \E types \in TypesArgs, data_access \in AccessArgs,
          wt \in Timeouts, reply \in Replies :
        Calls([op |-> "request_authorization", types |-> types,
               data_access |-> data_access, wait_timeout |-> wt, reply |-> reply],
              request_authorization(types, data_access, wt, reply))

RequestAuthorizationAsync ==
    /\ pc = "idle"
    /\ \E types \in TypesArgs, data_access \in AccessArgs,
          wt \in Timeouts, reply \in Replies :
        Calls([op |-> "request_authorization_async", types |-> types,
               data_access |-> data_access, wait_timeout |-> wt, reply |-> reply],
              request_authorization_async(types, data_access, wt, reply))

HasPermissions ==
    /\ pc = "idle"
    /\ \E types \in TypesArgs, data_access \in AccessArgs,
          wt \in Timeouts, reply \in Replies :
        Calls([op |-> "has_permissions", types |-> types,
               data_access |-> data_access, wait_timeout |-> wt, reply |-> reply],
              has_permissions(types, data_access, wt, reply))

HasPermissionsAsync ==
    /\ pc = "idle"
    /\ \E types \in TypesArgs, data_access \in AccessArgs,
          wt \in Timeouts, reply \in Replies :
        Calls([op |-> "has_permissions_async", types |-> types,
               data_access |-> data_access, wait_timeout |-> wt, reply |-> reply],
              has_permissions_async(types, data_access, wt, reply))

WriteHealthData ==
    /\ pc = "idle"
    /\ \E start_time \in WriteTimes, end_time \in WriteTimes,
       types \in {NoneV, STEPS, WEIGHT}, unit \in {NoneV, KILOCALORIE},
       recording_method \in {NoneV, MANUAL},
       wt \in Timeouts, reply \in Replies :
        Calls([op |-> "write_health_data", value |-> FloatV(15),
               start_time |-> start_time, end_time |-> end_time,
               types |-> types, unit |-> unit,
               recording_method |-> recording_method,
               wait_timeout |-> wt, reply |-> reply],
              write_health_data(FloatV(15), start_time, end_time, types, unit,
                                recording_method, wt, reply))

Delete ==
    /\ pc = "idle"
    /\ \E types \in {NoneV, STEPS, RUNNING}, start_time \in WriteTimes,
       end_time \in {NoneV} \cup WriteTimes,
       wt \in Timeouts, reply \in Replies :
        Calls([op |-> "delete", types |-> types, start_time |-> start_time,
               end_time |-> end_time, wait_timeout |-> wt, reply |-> reply],
              delete(types, start_time, end_time, wt, reply))

\* a recording_method argument: left to its default, None, a member, a str
RecordingMethodArgs == {AUTOMATIC, NoneV, MANUAL, StrV("manual")}

OpenAppSettings ==
    /\ pc = "idle"
    /\ \E op \in {"open_app_settings", "open_app_settings_async"},
          wt \in Timeouts, reply \in Replies :
        Calls([op |-> op, wait_timeout |-> wt, reply |-> reply],
              open_app_settings(wt, reply))

RequestHealthDataHistoryAuthorization ==
    /\ pc = "idle"
    /\ \E op \in {"request_health_data_history_authorization",
                  "request_health_data_history_authorization_async"},
          platform \in {"ios", "android", "macos"}, wt \in Timeouts, reply \in Replies :
        Calls([op |-> op, platform |-> platform, wait_timeout |-> wt, reply |-> reply],
              request_health_data_history_authorization(platform, wt, reply))

RequestHealthDataInBackgroundAuthorization ==
    /\ pc = "idle"
    /\ \E op \in {"request_health_data_in_background_authorization",
                  "request_health_data_in_background_authorization_async"},
          platform \in {"ios", "android", "macos"}, wt \in Timeouts, reply \in Replies :
        Calls([op |-> op, platform |-> platform, wait_timeout |-> wt, reply |-> reply],
              request_health_data_in_background_authorization(platform, wt, reply))

WriteBloodOxygen ==
    /\ pc = "idle"
    /\ \E op \in {"write_blood_oxygen", "write_blood_oxygen_async"},
          start_time \in WriteTimes, recording_method \in RecordingMethodArgs,
          wt \in Timeouts, reply \in Replies :
        Calls([op |-> op, saturation |-> FloatV(98), start_time |-> start_time,
               end_time |-> DatetimeV(2500), recording_method |-> recording_method,
               wait_timeout |-> wt, reply |-> reply],
              write_blood_oxygen(FloatV(98), start_time, DatetimeV(2500),
                                      recording_method, wt, reply))

WriteWorkoutData ==
    /\ pc = "idle"
    /\ \E op \in {"write_workout_data", "write_workout_data_async"},
          a \in [activity_type : {RUNNING, NoneV}, start_time : WriteTimes,
                 end_time : {DatetimeV(2500)},
                 total_energy_burned : {NoneV, IntV(1)},
                 total_energy_burned_unit : {NoneV, KILOCALORIE},
                 total_distance : {NoneV}, total_distance_unit : {NoneV, METER},
                 title : {NoneV, StrV("a")}, recording_method : {NoneV, MANUAL}],
          wt \in Timeouts, reply \in Replies :
        Calls([op |-> op, args |-> a, wait_timeout |-> wt, reply |-> reply],
              write_workout_data(a, wt, reply))

WriteBloodPressure ==
    /\ pc = "idle"
    /\ \E op \in {"write_blood_pressure", "write_blood_pressure_async"},
          start_time \in WriteTimes, recording_method \in RecordingMethodArgs,
          wt \in Timeouts, reply \in Replies :
        Calls([op |-> op, systolic |-> IntV(120), diastolic |-> IntV(80),
               start_time |-> start_time, recording_method |-> recording_method,
               wait_timeout |-> wt, reply |-> reply],
              write_blood_pressure(IntV(120), IntV(80), start_time,
                                        recording_method, wt, reply))

WriteMeal ==
    /\ pc = "idle"
    /\ \E op \in {"write_meal", "write_meal_async"}, meal_type \in {BREAKFAST, NoneV},
          nutrients \in
              {[f \in MealNutrients |-> NoneV],
               [f \in MealNutrients |-> IF f = "name" THEN StrV("a") ELSE FloatV(1)]},
          recording_method \in RecordingMethodArgs,
          wt \in Timeouts, reply \in Replies :
        Calls([op |-> op, meal_type |-> meal_type, start_time |-> DatetimeV(-1500),
               end_time |-> DatetimeV(2500), nutrients |-> nutrients,
               recording_method |-> recording_method,
               wait_timeout |-> wt, reply |-> reply],
              write_meal(meal_type, DatetimeV(-1500), DatetimeV(2500),
                              nutrients, recording_method, wt, reply))

WriteAudiogram ==
    /\ pc = "idle"
    /\ \E op \in {"write_audiogram", "write_audiogram_async"},
          platform \in {"ios", "android", "macos"}, a \in [frequencies : {ListV(<<>>), ListV(<<FloatV(1)>>)},
                 left_ear_sensitivities : {ListV(<<FloatV(1)>>)},
                 right_ear_sensitivities : {ListV(<<FloatV(1)>>)},
                 start_time : WriteTimes, end_time : {DatetimeV(2500)},
                 metadata : {NoneV, DictV([a |-> IntV(1)]), DictV([a |-> MANUAL])}],
          wt \in Timeouts, reply \in Replies :
        Calls([op |-> op, platform |-> platform, args |-> a,
               wait_timeout |-> wt, reply |-> reply],
              write_audiogram(platform, a, wt, reply))

WriteMenstruationFlow ==
    /\ pc = "idle"
    /\ \E op \in {"write_menstruation_flow", "write_menstruation_flow_async"},
          flow \in {LIGHT, NoneV}, is_start_of_cycle \in {BoolV(TRUE), BoolV(FALSE)},
          recording_method \in RecordingMethodArgs,
          wt \in Timeouts, reply \in Replies :
        Calls([op |-> op, flow |-> flow, start_time |-> DatetimeV(-1500),
               end_time |-> DatetimeV(2500),
               is_start_of_cycle |-> is_start_of_cycle,
               recording_method |-> recording_method,
               wait_timeout |-> wt, reply |-> reply],
              write_menstruation_flow(flow, DatetimeV(-1500), DatetimeV(2500),
                                           is_start_of_cycle, recording_method,
                                           wt, reply))

WriteInsulinDelivery ==
    /\ pc = "idle"
    /\ \E op \in {"write_insulin_delivery", "write_insulin_delivery_async"},
          reason \in {BASAL, StrV("basal")}, start_time \in WriteTimes,
          wt \in Timeouts, reply \in Replies :
        Calls([op |-> op, units |-> FloatV(2), reason |-> reason,
               start_time |-> start_time, end_time |-> DatetimeV(2500),
               wait_timeout |-> wt, reply |-> reply],
              write_insulin_delivery(FloatV(2), reason, start_time,
                                          DatetimeV(2500), wt, reply))

DeleteByUuid ==
    /\ pc = "idle"
    /\ \E op \in {"delete_by_uuid", "delete_by_uuid_async"},
          uuid \in {StrV("a")}, types \in {NoneV, STEPS, StrV("bogus")},
          wt \in Timeouts, reply \in Replies :
        Calls([op |-> op, uuid |-> uuid, types |-> types,
               wait_timeout |-> wt, reply |-> reply],
              delete_by_uuid(uuid, types, wt, reply))

\* what a decoding wrapper is answered with: None on a timeout, the empty
\* string, a status word, text that is nothing, or a JSON text
DataReplies ==
    {NoneV, StrV(""), StrV("oops"), StrV("granted"), StrV("denied"),
     StrV("permanentlyDenied")} \cup
    {StrV(t) : t \in
        {"[]", "[1, 2]", "[2, 1]", "[{\"a\": 1}]", "{\"a\": 1}", "1", "2", "true", "{}",
         "{\"activity_recognition\": \"granted\"}",
         "{\"activity_recognition\": \"denied\"}",
         "{\"activity_recognition\": \"bogus\"}",
         "{\"activity_recognition\": \"granted\", \"location\": \"granted\"}",
         "{\"activity_recognition\": \"granted\", \"location\": \"denied\"}"}}

PermissionArgs == {ACTIVITY_RECOGNITION, LOCATION, StrV("bogus")}
PermissionListArgs == {ListV(q) : q \in SeqsUpTo(PermissionArgs, MaxTypes)}
DataRecordingMethods ==
    {NoneV, ListV(<<>>), ListV(<<MANUAL, AUTOMATIC>>), ListV(<<StrV("bogus")>>)}

RequestPermission ==
    /\ pc = "idle"
    /\ \E op \in {"request_permission", "request_permission_async"},
          permission \in PermissionArgs, wt \in Timeouts, reply \in DataReplies :
        Calls([op |-> op, permission |-> permission,
               wait_timeout |-> wt, reply |-> reply],
              request_permission(permission, wt, reply))

CheckPermission ==
    /\ pc = "idle"
    /\ \E op \in {"check_permission", "check_permission_async"},
          permission \in PermissionArgs, wt \in Timeouts, reply \in DataReplies :
        Calls([op |-> op, permission |-> permission,
               wait_timeout |-> wt, reply |-> reply],
              check_permission(permission, wt, reply))

RequestMultiplePermissions ==
    /\ pc = "idle"
    /\ \E op \in {"request_multiple_permissions", "request_multiple_permissions_async"},
          permissions \in PermissionListArgs, wt \in Timeouts, reply \in DataReplies :
        Calls([op |-> op, permissions |-> permissions,
               wait_timeout |-> wt, reply |-> reply],
              request_multiple_permissions(permissions, wt, reply))

RequestAndValidatePermissions ==
    /\ pc = "idle"
    /\ \E op \in {"request_and_validate_permissions",
                  "request_and_validate_permissions_async"},
          permissions \in PermissionListArgs, wt \in Timeouts, reply \in DataReplies :
        Calls([op |-> op, permissions |-> permissions,
               wait_timeout |-> wt, reply |-> reply],
              request_and_validate_permissions(permissions, wt, reply))

GetTotalStepsInInterval ==
    /\ pc = "idle"
    /\ \E op \in {"get_total_steps_in_interval", "get_total_steps_in_interval_async"},
          start_time \in WriteTimes, include_manual_entry \in {BoolV(TRUE), BoolV(FALSE)},
          wt \in Timeouts, reply \in DataReplies :
        Calls([op |-> op, start_time |-> start_time, end_time |-> DatetimeV(2500),
               include_manual_entry |-> include_manual_entry,
               wait_timeout |-> wt, reply |-> reply],
              get_total_steps_in_interval(start_time, DatetimeV(2500),
                                               include_manual_entry, wt, reply))

GetHealthAggregateDataFromTypes ==
    /\ pc = "idle"
    /\ \E op \in {"get_health_aggregate_data_from_types",
                  "get_health_aggregate_data_from_types_async"},
          types \in TypesArgs, start_time \in WriteTimes,
          wt \in Timeouts, reply \in DataReplies :
        Calls([op |-> op, types |-> types, start_time |-> start_time,
               end_time |-> DatetimeV(2500), activity_segment_duration |-> IntV(1),
               include_manual_entry |-> BoolV(TRUE),
               wait_timeout |-> wt, reply |-> reply],
              get_health_aggregate_data_from_types(
                       types, start_time, DatetimeV(2500), IntV(1), BoolV(TRUE),
                       wt, reply))

GetHealthDataFromTypes ==
    /\ pc = "idle"
    /\ \E op \in {"get_health_data_from_types", "get_health_data_from_types_async"},
          types \in TypesArgs, recording_method \in DataRecordingMethods,
          wt \in Timeouts, reply \in DataReplies :
        Calls([op |-> op, types |-> types, start_time |-> DatetimeV(-1500),
               end_time |-> DatetimeV(2500), recording_method |-> recording_method,
               wait_timeout |-> wt, reply |-> reply],
              get_health_data_from_types(types, DatetimeV(-1500), DatetimeV(2500),
                                              recording_method, wt, reply))

GetHealthIntervalDataFromTypes ==
    /\ pc = "idle"
    /\ \E op \in {"get_health_interval_data_from_types",
                  "get_health_interval_data_from_types_async"},
          types \in TypesArgs, recording_method \in DataRecordingMethods,
          wt \in Timeouts, reply \in DataReplies :
        Calls([op |-> op, start_time |-> DatetimeV(-1500),
               end_time |-> DatetimeV(2500), types |-> types, interval |-> IntV(60),
               recording_method |-> recording_method,
               wait_timeout |-> wt, reply |-> reply],
              get_health_interval_data_from_types(
                       DatetimeV(-1500), DatetimeV(2500), types, IntV(60),
                       recording_method, wt, reply))

RevokePermissions ==
    /\ pc = "idle"
    /\ \E platform \in {"ios", "android", "macos"} :
        Calls([op |-> "revoke_permissions", platform |-> platform],
              revoke_permissions(platform))

InstallHealthConnect ==
    /\ pc = "idle"
    /\ \E platform \in {"ios", "android", "macos"} :
        Calls([op |-> "install_health_connect", platform |-> platform],
              install_health_connect(platform))

GetHealthConnectSdkStatus ==
    /\ pc = "idle"
    /\ \E op \in {"get_health_connect_sdk_status",
                  "get_health_connect_sdk_status_async"},
          platform \in {"ios", "android", "macos"}, wt \in Timeouts,
          reply \in {NoneV, StrV("HealthConnectSdkStatus.sdkAvailable"),
                     StrV("HealthConnectSdkStatus.sdkUnavailable"), StrV("true")} :
        Calls([op |-> op, platform |-> platform, wait_timeout |-> wt, reply |-> reply],
              IF op = "get_health_connect_sdk_status"
              THEN get_health_connect_sdk_status(platform, wt, reply)
              ELSE get_health_connect_sdk_status_async(platform, wt, reply))

Next ==
    \/ RevokePermissions
    \/ InstallHealthConnect
    \/ GetHealthConnectSdkStatus
    \/ RequestPermission
    \/ CheckPermission
    \/ RequestMultiplePermissions
    \/ RequestAndValidatePermissions
    \/ GetTotalStepsInInterval
    \/ GetHealthAggregateDataFromTypes
    \/ GetHealthDataFromTypes
    \/ GetHealthIntervalDataFromTypes
    \/ OpenAppSettings
    \/ RequestHealthDataHistoryAuthorization
    \/ RequestHealthDataInBackgroundAuthorization
    \/ WriteBloodOxygen
    \/ WriteWorkoutData
    \/ WriteBloodPressure
    \/ WriteMeal
    \/ WriteAudiogram
    \/ WriteMenstruationFlow
    \/ WriteInsulinDelivery
    \/ DeleteByUuid
    \/ RequestAuthorization
    \/ RequestAuthorizationAsync
    \/ HasPermissions
    \/ HasPermissionsAsync
    \/ WriteHealthData
    \/ Delete
    \/ Forget

Spec == InitHealth /\ [][Next]_vars

----------------------------------------------------------------------------
(* A Parameter Object constructed from any keyword arguments, then serialised *)

\* the class and the keyword arguments of a construction
Constructions ==
    LET ParamTimeouts ==
            {Omitted, IntV(25), FloatV(5), IntV(0), IntV(-1), FloatV(0),
             FloatV(-5), NoneV}
        ParamRecordingMethods ==
            {Omitted, NoneV, ListV(<<>>), ListV(<<MANUAL>>),
             ListV(<<MANUAL, AUTOMATIC>>), ListV(<<READ>>)}
    IN
        [cls : {"HealthAuthorizationParams"}, types : TypesArgs,
         data_access : {Omitted} \cup AccessArgs, wait_timeout : ParamTimeouts]
        \cup
        [cls : {"GetHealthDataParams"}, types : {ListV(<<>>), ListV(<<STEPS, WEIGHT>>)},
         start_time : WriteTimes, end_time : {DatetimeV(2500)},
         recording_method : ParamRecordingMethods, wait_timeout : ParamTimeouts]
        \cup
        [cls : {"HealthIntervalDataParams"}, start_time : WriteTimes,
         end_time : {DatetimeV(2500)}, types : {ListV(<<>>), ListV(<<STEPS, WEIGHT>>)},
         interval : {IntV(60), StrV("bogus")},
         recording_method : ParamRecordingMethods, wait_timeout : ParamTimeouts]
        \cup
        [cls : {"DeleteParams"}, types : {STEPS, RUNNING, StrV("bogus")},
         start_time : WriteTimes, end_time : {Omitted, NoneV, DatetimeV(2500)},
         wait_timeout : ParamTimeouts]
        \cup
        [cls : {"DeleteByUUIDParams"}, uuid : {StrV("a")},
         types : {Omitted, NoneV, STEPS, StrV("bogus")}, wait_timeout : ParamTimeouts]

\* Class(**kwargs)
Construct(c) ==
    CASE c.cls = "HealthAuthorizationParams" ->
             HealthAuthorizationParams(c.types, c.data_access, c.wait_timeout)
      [] c.cls = "GetHealthDataParams" ->
             GetHealthDataParams(c.types, c.start_time, c.end_time,
                                 c.recording_method, c.wait_timeout)
      [] c.cls = "HealthIntervalDataParams" ->
             HealthIntervalDataParams(c.start_time, c.end_time, c.types,
                                      c.interval, c.recording_method,
                                      c.wait_timeout)
      [] c.cls = "DeleteParams" ->
             DeleteParams(c.types, c.start_time, c.end_time, c.wait_timeout)
      [] c.cls = "DeleteByUUIDParams" ->
             DeleteByUUIDParams(c.uuid, c.types, c.wait_timeout)

InitParams ==
    /\ pc = "new"
    /\ ctor \in Constructions
    /\ instance = NotCalled
    /\ document = NotCalled
    /\ param_value = NoneV
    /\ type_name = NoneV
    /\ subtype_name = NoneV
    /\ class_name = NoneV
    /\ result = NotCalled
    /\ call = NoCall
    /\ invoked = <<>>
    /\ outcome = NotCalled

\* the constructor runs its validators and returns the object or raises
ConstructParams ==
    /\ pc = "new"
    /\ instance' = Construct(ctor)
    /\ pc' = "built"
    /\ UNCHANGED <<ctor, document>>
    /\ UNCHANGED <<param_value, type_name, subtype_name, class_name, result>>
    /\ UNCHANGED wrapperVars

\* obj.to_wrapped()
ToWrapped ==
    /\ pc = "built"
    /\ instance.ok
    /\ document' = to_wrapped(instance.value)
    /\ pc' = "wrapped"
    /\ UNCHANGED <<ctor, instance>>
    /\ UNCHANGED <<param_value, type_name, subtype_name, class_name, result>>
    /\ UNCHANGED wrapperVars

NextParams == ConstructParams \/ ToWrapped

SpecParams == InitParams /\ [][NextParams]_vars

----------------------------------------------------------------------------
(* Properties of the wrappers, checked under Spec *)

Sent == pc = "returned" /\ Len(invoked) > 0
AuthOps == {"request_authorization", "request_authorization_async",
            "has_permissions", "has_permissions_async"}

\* a JSON object with exactly the four members of an Envelope
IsEnvelopeJson(doc) ==
    doc.j = "object" /\ DOMAIN doc.d = {"value", "type", "subtype", "class_name"}

\* the document to_wrapped() gives for the Parameter Object built from the
\* arguments of an authorization call
WrappedAuthorization(c) ==
    LET obj == HealthAuthorizationParams(c.types, c.data_access, c.wait_timeout)
    IN  IF obj.ok THEN to_wrapped(obj.value) ELSE obj

----------------------------------------------------------------------------
(* Properties of wrap_value, checked under SpecWrap *)

Done == pc = "done"
NoHints == type_name = NoneV /\ subtype_name = NoneV /\ class_name = NoneV
Env == result.value.d

\* a non-empty list all of whose members belong to one enum class
SameClassEnums(v) ==
    /\ IsList(v)
    /\ Len(v.items) > 0
    /\ \A i \in 1..Len(v.items) :
           IsEnum(v.items[i]) /\ v.items[i].cls = v.items[1].cls

\* the two paths of wrap_value on which the hints reach the envelope
NonePath == param_value = NoneV
HintedListPath == type_name = StrV("list") /\ IsList(param_value)

\* C2: every enum member passed without hints, of whatever enum class, is
\* wrapped as {value: e.value, type: "enum", subtype: null, class_name: the
\* name of e's class}.
C2_EnumEnvelope ==
    (Done /\ NoHints /\ IsEnum(param_value)) =>
        result = Returned(Envelope(param_value.value, StrV("enum"), NoneV,
                                   StrV(param_value.cls)))

\* C3: a non-empty list of members of one enum class T, passed without
\* hints, is wrapped as a list of the members' values, of the same length and
\* in the same order, with subtype "enum" and class_name T.
C3_EnumList ==
    (Done /\ NoHints /\ SameClassEnums(param_value)) =>
        /\ result.ok
        /\ Env.type = StrV("list")
        /\ Env.subtype = StrV("enum")
        /\ Env.class_name = StrV(param_value.items[1].cls)
        /\ IsList(Env.value)
        /\ Len(Env.value.items) = Len(param_value.items)
        /\ \A i \in 1..Len(param_value.items) :
               Env.value.items[i] = param_value.items[i].value

C3_Witness ==
    /\ Done /\ NoHints
    /\ param_value = ListV(<<READ, WRITE>>)
    /\ result.ok
    /\ Env.value = ListV(<<StrV("READ"), StrV("WRITE")>>)

\* C4: every datetime is wrapped with type "date" and the integer value
\* floor(epoch seconds * 1000), rounded toward minus infinity.
C4_DateFloor ==
    (Done /\ IsDatetime(param_value)) =>
        /\ result.ok
        /\ Env.type = StrV("date")
        /\ Env.value = IntV(param_value.us \div 1000)

\* C5: a bool, int, float or str passed without hints is wrapped unchanged,
\* with null subtype and class_name and the type tag of its own class; a bool
\* is tagged "bool", never "int".
C5_Primitives ==
    (Done /\ NoHints /\ param_value.k \in {"bool", "int", "float", "str"}) =>
        result = Returned(Envelope(param_value, StrV(param_value.k), NoneV, NoneV))

C5_Witness ==
    /\ Done /\ NoHints
    /\ param_value = BoolV(TRUE)
    /\ result.ok
    /\ Env.type = StrV("bool")

\* C6: whenever wrap_value returns an envelope whose value is a list, no
\* member of that list is an enum member object.
C6_NoEnumInValue ==
    (Done /\ result.ok /\ IsList(Env.value)) =>
        \A i \in 1..Len(Env.value.items) : ~IsEnum(Env.value.items[i])

Tags == {"bool", "int", "float", "str", "list", "dict", "enum", "date", "none"}

\* the envelope's type is a known tag and describes the envelope's value
TypeMatches(e) ==
    /\ e.type.k = "str"
    /\ e.type.s \in Tags
    /\ (e.type.s = "none") <=> (e.value.k = "none")
    /\ (e.type.s = "list") <=> IsList(e.value)
    /\ (e.type.s = "dict") <=> IsDict(e.value)
    /\ (e.type.s = "bool") => IsBool(e.value)
    /\ (e.type.s = "int") => (IsInt(e.value) /\ ~IsBool(e.value))
    /\ (e.type.s = "float") => IsFloat(e.value)
    /\ (e.type.s = "str") => IsStr(e.value)
    /\ (e.type.s = "date") => e.value.k = "int"
    /\ (e.type.s = "enum") => e.value.k \in {"str", "int"}

\* C7 as stated: for every value and every combination of hints, the
\* envelope's type is one of the nine tags and agrees with the shape of value.
C7_TypeMatchesAlways ==
    (Done /\ result.ok) => TypeMatches(Env)

\* C7 amended: the type is one of the nine tags and agrees with the shape of
\* value unless the value is null and a non-empty type_name was given; then
\* the value is null and the type is the hint, whatever it says.
C7_TypeMatchesUnlessHintedNone ==
    (Done /\ result.ok) =>
        IF NonePath /\ Truthy(type_name)
        THEN Env.value = NoneV /\ Env.type = type_name
        ELSE TypeMatches(Env)

C7_Witness ==
    /\ Done /\ result.ok
    /\ IsDatetime(param_value)
    /\ type_name = StrV("enum")
    /\ Env.type = StrV("date")
    /\ Env.value.k = "int"

\* subtype only on a list of enums, class_name only on an enum or on a list
\* of enums
MetadataMatches(e, v) ==
    /\ (e.subtype # NoneV) =>
           /\ e.type = StrV("list")
           /\ e.subtype = StrV("enum")
           /\ IsList(v)
           /\ \A i \in 1..Len(v.items) : IsEnum(v.items[i])
    /\ (e.class_name # NoneV) =>
           \/ e.type = StrV("enum")
           \/ (e.type = StrV("list") /\ e.subtype = StrV("enum"))

\* C8 as stated: for every value and every combination of hints, subtype is
\* non-null only on a list of enums and class_name only on an enum or a list
\* of enums.
C8_MetadataAlways ==
    (Done /\ result.ok) => MetadataMatches(Env, param_value)

\* C8 amended: that holds whenever the hints do not reach the envelope; when
\* the value is null, or the value is a list and type_name is "list", subtype
\* and class_name are the caller's hints unchanged.
C8_MetadataUnlessHinted ==
    (Done /\ result.ok) =>
        IF NonePath \/ HintedListPath
        THEN Env.subtype = subtype_name /\ Env.class_name = class_name
        ELSE MetadataMatches(Env, param_value)

C8_Witness ==
    /\ Done /\ result.ok
    /\ param_value = ListV(<<MANUAL, MANUAL>>)
    /\ type_name = StrV("enum")
    /\ subtype_name = NoneV
    /\ class_name = NoneV
    /\ Env.subtype = StrV("enum")
    /\ Env.class_name = StrV("RecordingMethod")

\* C9 as stated: every hint that is given is the envelope's field, for every
\* value.
C9_HintsAlwaysWin ==
    (Done /\ result.ok) =>
        /\ (type_name # NoneV) => Env.type = type_name
        /\ (subtype_name # NoneV) => Env.subtype = subtype_name
        /\ (class_name # NoneV) => Env.class_name = class_name

\* C9 amended: the hints reach the envelope on two paths only.  For a null
\* value the type is type_name when that is a non-empty string and "none"
\* otherwise, and subtype and class_name are the hints; for a list with
\* type_name "list" the type is "list" and subtype and class_name are the
\* hints; for every other value the hints are ignored and the envelope is the
\* one inferred without hints.
C9_HintsOnNoneAndList ==
    Done =>
        IF NonePath
        THEN /\ result.ok
             /\ Env.type = (IF Truthy(type_name) THEN type_name ELSE StrV("none"))
             /\ Env.subtype = subtype_name
             /\ Env.class_name = class_name
        ELSE IF HintedListPath
        THEN /\ result.ok
             /\ Env.type = StrV("list")
             /\ Env.subtype = subtype_name
             /\ Env.class_name = class_name
        ELSE result = wrap_value(param_value, NoneV, NoneV, NoneV)

C9_Witness ==
    /\ Done /\ result.ok
    /\ param_value = NoneV
    /\ type_name = StrV("list")
    /\ subtype_name = StrV("enum")
    /\ class_name = StrV("RecordingMethod")
    /\ Env.type = StrV("list")
    /\ Env.class_name = StrV("RecordingMethod")

UnsupportedKinds == {"tuple", "set", "object"}

\* C10 as stated: an unsupported value makes wrap_value raise the
\* unsupported-type error, with or without hints, and no call returns an
\* envelope whose type is "unknown".
C10_StrictAndNeverUnknown ==
    Done =>
        /\ (param_value.k \in UnsupportedKinds) => result = Raised("TypeError")
        /\ result.ok => Env.type # StrV("unknown")

\* C10 amended: an unsupported value makes wrap_value raise the
\* unsupported-type error, with or without hints, and wrap_value never infers
\* the tag "unknown": an envelope of type "unknown" is returned only for a
\* null value whose type_name hint is "unknown".
C10_StrictUnlessHintedUnknown ==
    Done =>
        /\ (param_value.k \in UnsupportedKinds) => result = Raised("TypeError")
        /\ (result.ok /\ Env.type = StrV("unknown")) =>
               (param_value = NoneV /\ type_name = StrV("unknown"))

C10_Witness ==
    /\ Done
    /\ param_value = ObjectV
    /\ type_name = StrV("list")
    /\ result = Raised("TypeError")

\* equal, or two datetimes within the same millisecond
SameUpToMs(a, b) ==
    \/ a = b
    \/ (IsDatetime(a) /\ IsDatetime(b) /\ TimestampMs(a) = TimestampMs(b))

\* C11: round trip.  The envelope alone determines the input, up to the
\* millisecond truncation of datetimes: every value that wrap_value, called
\* without hints, maps to the same envelope is the same value, so a decoder
\* that sees only the envelope can reconstruct the input.
C11_RoundTrip ==
    (Done /\ NoHints /\ result.ok) =>
        \A w \in Values :
            (wrap_value(w, NoneV, NoneV, NoneV) = result) =>
                SameUpToMs(w, param_value)

----------------------------------------------------------------------------
(* Properties of the Parameter Objects, checked under SpecParams *)

Built == pc \in {"built", "wrapped"} /\ instance.ok
Serialised == pc = "wrapped"

\* HealthAuthorizationParams constructed with data_access omitted or None
AccessDefaulted ==
    ctor.cls = "HealthAuthorizationParams" /\ values_get(ctor.data_access) = NoneV

\* the underlying values of a list of enum members
ValuesOf(items) == [i \in 1..Len(items) |-> items[i].value]

\* the types field is serialised as a list envelope of the members' values
TypesEnvelope ==
    /\ document.value.d.types.d.value = JsonOf(ListV(ValuesOf(ctor.types.items)))
    /\ document.value.d.types.d.type = JString("list")

\* the data_access field is serialised as n READ values with the enum hints
AccessEnvelopeTyped ==
    document.value.d.data_access =
        JsonOf(Envelope(ListV(Repeat(READ.value, Len(ctor.types.items))),
                        StrV("list"), StrV("enum"), StrV("DataAccess")))

\* C12 as stated: with data_access omitted or None the object holds one READ
\* per type, for every length n >= 0 of types, and to_wrapped() encodes
\* data_access as the n READ values with type "list", subtype "enum" and
\* class_name "DataAccess", and types as a list envelope of the types' values.
C12_DefaultAccessAnyLength ==
    /\ (AccessDefaulted /\ Built) =>
           instance.value.d.data_access = ListV(Repeat(READ, Len(ctor.types.items)))
    /\ (AccessDefaulted /\ Serialised) =>
           document.ok /\ TypesEnvelope /\ AccessEnvelopeTyped

\* C12, amended: the same for n >= 1; for n = 0 the synthesized empty list is
\* encoded with type "list" and null subtype and class_name.
C12_DefaultAccessNonEmpty ==
    /\ (AccessDefaulted /\ Built) =>
           instance.value.d.data_access = ListV(Repeat(READ, Len(ctor.types.items)))
    /\ (AccessDefaulted /\ Serialised) =>
           /\ document.ok
           /\ TypesEnvelope
           /\ Len(ctor.types.items) >= 1 => AccessEnvelopeTyped
           /\ Len(ctor.types.items) = 0 =>
                  document.value.d.data_access =
                      JsonOf(Envelope(ListV(<<>>), StrV("list"), NoneV, NoneV))

C12_Witness ==
    AccessDefaulted /\ Serialised /\ Len(ctor.types.items) = MaxTypes

\* C13: no HealthAuthorizationParams object exists whose data_access and
\* types differ in length: construction with an explicit data_access of
\* another length than types fails with a validation error.
C13_NoLengthMismatch ==
    (Built /\ ctor.cls = "HealthAuthorizationParams") =>
        Len(instance.value.d.data_access.items) = Len(instance.value.d.types.items)

\* GetHealthDataParams or HealthIntervalDataParams constructed with
\* recording_method omitted or None
RecordingMethodDefaulted ==
    /\ ctor.cls \in {"GetHealthDataParams", "HealthIntervalDataParams"}
    /\ values_get(ctor.recording_method) = NoneV

\* field f of the document is the envelope wrap_value gives without hints
EncodedWithoutHints(f) ==
    LET plain == wrap_value(instance.value.d[f], NoneV, NoneV, NoneV)
    IN  plain.ok /\ document.value.d[f] = JsonOf(plain.value)

IsNumber(v) == v.k \in {"int", "float"}
NumberOf(v) == IF v.k = "int" THEN v.n ELSE v.x

\* C15: construction with wait_timeout <= 0 fails with a validation error,
\* construction without wait_timeout gives wait_timeout = 25, and every
\* constructed Parameter Object has wait_timeout > 0.
C15_PositiveTimeout ==
    /\ (pc # "new" /\ IsNumber(ctor.wait_timeout) /\ NumberOf(ctor.wait_timeout) <= 0) =>
           instance = Raised("ValidationError")
    /\ (Built /\ ctor.wait_timeout = Omitted) =>
           NumberOf(instance.value.d.wait_timeout) = 25
    /\ Built =>
           IsNumber(instance.value.d.wait_timeout)
               /\ NumberOf(instance.value.d.wait_timeout) > 0

C15_Witness ==
    /\ pc = "built"
    /\ ctor.cls = "DeleteByUUIDParams"
    /\ ctor.types = STEPS
    /\ ctor.wait_timeout = FloatV(0)
    /\ instance = Raised("ValidationError")

----------------------------------------------------------------------------
(* Properties of the replies, checked under Spec *)

\* the wrappers that answer with a success flag
FlagOps ==
    {"request_authorization", "request_authorization_async",
     "write_blood_oxygen", "write_blood_oxygen_async",
     "write_health_data",
     "write_workout_data", "write_workout_data_async",
     "write_blood_pressure", "write_blood_pressure_async",
     "write_meal", "write_meal_async",
     "write_audiogram", "write_audiogram_async",
     "write_menstruation_flow", "write_menstruation_flow_async",
     "write_insulin_delivery", "write_insulin_delivery_async",
     "delete", "delete_by_uuid", "delete_by_uuid_async",
     "open_app_settings", "open_app_settings_async",
     "request_health_data_history_authorization",
     "request_health_data_history_authorization_async",
     "request_health_data_in_background_authorization",
     "request_health_data_in_background_authorization_async"}

\* C16: a success-flag wrapper that reached the channel returns true exactly
\* when the reply is the string "true"; a null reply, "false" or any other
\* string gives false, and nothing is raised.
C16_SuccessFlag ==
    (Sent /\ call.op \in FlagOps) =>
        outcome = Returned(BoolV(call.reply = StrV("true")))

C16_Witness ==
    /\ Sent
    /\ call.op = "open_app_settings_async"
    /\ call.reply = StrV("false")
    /\ outcome = Returned(BoolV(FALSE))

ListOps ==
    {"get_health_data_from_types", "get_health_data_from_types_async",
     "get_health_interval_data_from_types",
     "get_health_interval_data_from_types_async",
     "get_health_aggregate_data_from_types",
     "get_health_aggregate_data_from_types_async"}

\* the entries of the JSON array texts, in the order they are written
IsArrayText(s) == s \in {"[]", "[1, 2]", "[2, 1]", "[{\"a\": 1}]"}
ArrayEntries(s) ==
    CASE s = "[]" -> <<>>
      [] s = "[1, 2]" -> <<"1", "2">>
      [] s = "[2, 1]" -> <<"2", "1">>
      [] s = "[{\"a\": 1}]" -> <<"{\"a\": 1}">>

DecodingOps ==
    ListOps \cup
    {"request_multiple_permissions", "request_multiple_permissions_async",
     "request_permission", "request_permission_async",
     "check_permission", "check_permission_async",
     "get_total_steps_in_interval", "get_total_steps_in_interval_async"}

\* None, an empty list or an empty dict
EmptyResult(v) ==
    \/ v = NoneV
    \/ (IsList(v) /\ Len(v.items) = 0)
    \/ (IsDict(v) /\ DOMAIN v.d = {})

\* C18: a wrapper that decodes its reply never raises on a failed remote
\* call: answered with null, or with text that is neither JSON nor a
\* recognised value, it returns its empty result.
C18_NoRaiseOnBadReply ==
    (Sent /\ call.op \in DecodingOps /\ call.reply \in {NoneV, StrV("oops")}) =>
        outcome.ok /\ EmptyResult(outcome.value)

ValidateOps ==
    {"request_and_validate_permissions", "request_and_validate_permissions_async"}

\* the reply is a JSON object that gives permission p the status "granted"
ReportedGranted(reply, p) ==
    /\ reply # NoneV
    /\ json_loads(reply.s).ok
    /\ IsDict(json_loads(reply.s).value)
    /\ p.value.s \in DOMAIN json_loads(reply.s).value.d
    /\ json_loads(reply.s).value.d[p.value.s] = StrV("granted")

\* the reply is a JSON object without an entry for permission p
Unreported(reply, p) ==
    /\ reply # NoneV
    /\ json_loads(reply.s).ok
    /\ IsDict(json_loads(reply.s).value)
    /\ p.value.s \notin DOMAIN json_loads(reply.s).value.d

\* C19: request_and_validate_permissions, called with a non-empty list,
\* returns True only if the reply reported "granted" for every requested
\* permission, and returns False when the reply is null or leaves a requested
\* permission out.
C19_AllRequestedGranted ==
    (Sent /\ call.op \in ValidateOps /\ Len(call.permissions.items) > 0) =>
        /\ (outcome = Returned(BoolV(TRUE))) =>
               \A i \in 1..Len(call.permissions.items) :
                   ReportedGranted(call.reply, call.permissions.items[i])
        /\ (\/ call.reply = NoneV
            \/ \E i \in 1..Len(call.permissions.items) :
                   Unreported(call.reply, call.permissions.items[i])) =>
               outcome = Returned(BoolV(FALSE))

\* C20: has_permissions answers True exactly for the reply "true", False
\* exactly for "false" and None for every other reply, and with data_access
\* left out the request carries READ once for every type.
C20_ThreeValuedAnswer ==
    (Sent /\ call.op \in {"has_permissions", "has_permissions_async"}) =>
        /\ outcome.ok
        /\ (outcome.value = BoolV(TRUE)) <=> (call.reply = StrV("true"))
        /\ (outcome.value = BoolV(FALSE)) <=> (call.reply = StrV("false"))
        /\ (outcome.value = NoneV) <=> (call.reply \notin {StrV("true"), StrV("false")})
        /\ (call.data_access = NoneV) =>
               invoked[1].arguments.data.d.data_access =
                   JArray(Repeat(JString("READ"), Len(call.types.items)))

C20_Witness ==
    /\ Sent
    /\ call.op = "has_permissions_async"
    /\ call.reply = StrV("True")
    /\ call.data_access = NoneV
    /\ Len(call.types.items) = MaxTypes
    /\ outcome = Returned(NoneV)

----------------------------------------------------------------------------
(* Properties of the calls, checked under Spec *)

Returns == pc = "returned"

AndroidAuthorizationOps ==
    {"request_health_data_history_authorization",
     "request_health_data_history_authorization_async",
     "request_health_data_in_background_authorization",
     "request_health_data_in_background_authorization_async"}
SdkStatusOps ==
    {"get_health_connect_sdk_status", "get_health_connect_sdk_status_async"}

\* C21: a platform-gated operation called on a platform it does not apply to
\* invokes nothing: off Android the two Android authorization requests
\* return True, get_health_connect_sdk_status returns None, revoke_permissions
\* and install_health_connect do nothing; write_audiogram on Android raises
\* ValueError.
C21_GatedWithoutInvocation ==
    Returns =>
        /\ (call.op \in AndroidAuthorizationOps /\ call.platform # "android") =>
               outcome = Returned(BoolV(TRUE)) /\ invoked = <<>>
        /\ (call.op \in SdkStatusOps /\ call.platform # "android") =>
               outcome = Returned(NoneV) /\ invoked = <<>>
        /\ (call.op \in {"revoke_permissions", "install_health_connect"}
                /\ call.platform # "android") =>
               outcome = Returned(NoneV) /\ invoked = <<>>
        /\ (call.op \in {"write_audiogram", "write_audiogram_async"}
                /\ call.platform = "android") =>
               outcome = Raised("ValueError") /\ invoked = <<>>

C23_AsyncAsSync ==
    Returns =>
        /\ call.op = "request_authorization_async" =>
               Ran(invoked, outcome) =
                   request_authorization(call.types, call.data_access,
                                         call.wait_timeout, call.reply)
        /\ call.op = "has_permissions_async" =>
               Ran(invoked, outcome) =
                   has_permissions(call.types, call.data_access,
                                   call.wait_timeout, call.reply)
        /\ call.op = "get_health_connect_sdk_status_async" =>
               Ran(invoked, outcome) =
                   get_health_connect_sdk_status(call.platform, call.wait_timeout,
                                                 call.reply)

PermissionOps ==
    {"request_permission", "request_permission_async",
     "check_permission", "check_permission_async"}

PermissionListOps ==
    {"request_multiple_permissions", "request_multiple_permissions_async"}

ForeignIn(list, IsMember(_)) ==
    \E i \in 1..Len(list.items) : ~IsMember(list.items[i])

SizeMismatch ==
    /\ call.data_access # NoneV
    /\ Len(call.data_access.items) # Len(call.types.items)

DataReadOps ==
    {"get_health_data_from_types", "get_health_data_from_types_async",
     "get_health_interval_data_from_types",
     "get_health_interval_data_from_types_async"}

\* C25: get_health_data_from_types and get_health_interval_data_from_types
\* raise, invoking nothing, when types or a non-empty recording_method
\* holds a foreign element; the failure is never turned into a returned [].
C25_ValidationSurfaced ==
    (/\ Returns
     /\ call.op \in DataReadOps
     /\ \/ ForeignIn(call.types, IsHealthType)
        \/ Truthy(call.recording_method)
               /\ ForeignIn(call.recording_method, IsRecordingMethod)) =>
        /\ ~outcome.ok
        /\ invoked = <<>>

\* the access requested for the i-th type: READ when data_access is None
AccessAt(i) ==
    IF call.data_access = NoneV THEN READ ELSE call.data_access.items[i]

\* C27: when request_authorization or has_permissions, synchronous or not,
\* reaches the channel with a types list of length n >= 0, the payload's
\* data_access is the JSON list of the n access values in order, never
\* null and never of another length.
C27_AccessListOfSameLength ==
    (Sent /\ call.op \in AuthOps) =>
        invoked[1].arguments.data.d.data_access =
            JArray([i \in 1..Len(call.types.items) |-> JsonOf(AccessAt(i).value)])

\* the call sent one payload whose member f is the value of the enum member m
SentReduced(f, m) ==
    /\ Len(invoked) = 1
    /\ invoked[1].arguments.data.d[f] = JsonOf(m.value)

\* C28: an enum member passed as recording_method to write_blood_pressure,
\* write_meal or write_menstruation_flow, or as reason to
\* write_insulin_delivery, explicitly or as the default, is reduced to its
\* value before the payload is encoded: the payload is sent and holds the
\* member's value, never the member.
C28_EnumArgumentsReduced ==
    Returns =>
        /\ (/\ call.op \in {"write_blood_pressure", "write_blood_pressure_async"}
            /\ IsRecordingMethod(call.recording_method)) =>
               SentReduced("recording_method", call.recording_method)
        /\ (/\ call.op \in {"write_meal", "write_meal_async"}
            /\ IsEnum(call.meal_type)
            /\ IsRecordingMethod(call.recording_method)) =>
               SentReduced("recording_method", call.recording_method)
        /\ (/\ call.op \in {"write_menstruation_flow", "write_menstruation_flow_async"}
            /\ IsEnum(call.flow)
            /\ IsRecordingMethod(call.recording_method)) =>
               SentReduced("recording_method", call.recording_method)
        /\ (/\ call.op \in {"write_insulin_delivery", "write_insulin_delivery_async"}
            /\ IsEnum(call.reason)) =>
               SentReduced("reason", call.reason)

\* the operation a call names: X for X and for X_async
OperationNames ==
    {"request_permission", "request_multiple_permissions", "check_permission",
     "open_app_settings", "request_health_data_history_authorization",
     "request_health_data_in_background_authorization", "request_authorization",
     "has_permissions", "revoke_permissions", "install_health_connect",
     "get_health_connect_sdk_status", "get_total_steps_in_interval",
     "get_health_aggregate_data_from_types", "get_health_data_from_types",
     "get_health_interval_data_from_types", "write_health_data",
     "write_blood_oxygen", "write_workout_data", "write_blood_pressure",
     "write_meal", "write_audiogram", "write_menstruation_flow",
     "write_insulin_delivery", "delete", "delete_by_uuid"}

\* C29: a wrapper that reaches the channel sends its own operation name as
\* method_name, X and X_async both sending "X"; so delete and
\* delete_by_uuid never send the same name.  (request_and_validate_permissions
\* has no method of its own: it goes through request_multiple_permissions.)
C29_OwnMethodName ==
    (Sent /\ call.op \notin ValidateOps) =>
        \A i \in 1..Len(invoked) :
            \E name \in OperationNames :
                /\ call.op \in {name, name \o "_async"}
                /\ invoked[i].method_name = name

\* Further properties of the Parameter Objects, checked under SpecParams

\* C26: to_wrapped() of a GetHealthDataParams or HealthIntervalDataParams
\* encodes recording_method with type "list", subtype "enum" and class_name
\* "RecordingMethod", both when the stored list is empty (the argument
\* omitted, None or an explicit []) and when it holds RecordingMethod members.
C26_RecordingMethodAlwaysTyped ==
    (Serialised /\ ctor.cls \in {"GetHealthDataParams", "HealthIntervalDataParams"}) =>
        /\ document.ok
        /\ document.value.d.recording_method =
               JsonOf(Envelope(
                   ListV(ValuesOfMembers(instance.value.d.recording_method.items)),
                   StrV("list"), StrV("enum"), StrV("RecordingMethod")))

\* the fields of a Parameter Object class that have a default
OptionalOf(cls) ==
    CASE cls = "HealthAuthorizationParams" -> {"data_access", "wait_timeout"}
      [] cls \in {"GetHealthDataParams", "HealthIntervalDataParams"} ->
             {"recording_method", "wait_timeout"}
      [] cls = "DeleteParams" -> {"end_time", "wait_timeout"}
      [] cls = "DeleteByUUIDParams" -> {"types", "wait_timeout"}

\* the constructor was given the required fields and nothing else
OnlyRequired ==
    \A f \in DOMAIN ctor \cap OptionalOf(ctor.cls) : ctor[f] = Omitted

\* C30: a Parameter Object constructed with only its required fields
\* serializes: to_wrapped() raises nothing and gives exactly one Envelope
\* for every declared field; so does DeleteByUUIDParams given only uuid.
C30_RequiredOnlySerializes ==
    (Serialised /\ OnlyRequired) =>
        /\ document.ok
        /\ DOMAIN document.value.d = DOMAIN instance.value.d
        /\ \A f \in DOMAIN document.value.d : IsEnvelopeJson(document.value.d[f])

====
